---- MODULE Spec2Model ----
(***************************************************************************)
(* Order lifecycle and payment reconciliation of Direct to Vet:            *)
(* the Mercado Pago webhooks (app/webhooks/mercadopago.py), the order      *)
(* tools (app/tools/orders.py, app/tools/payments.py), the order rows of   *)
(* the sheet store (app/infra/sheets.py) and the OAuth token vault         *)
(* (app/tools/oauth_mp.py, app/infra/token_store.py).                      *)
(*                                                                         *)
(* Strings built with f-strings are modelled as sequences of tokens, with  *)
(* the separator as a token of its own: "DTV|V1|O1" is                     *)
(* <<"DTV","|","V1","|","O1">>, so that split and startswith are computed. *)
(* The updated_at cell written last by every order update is not kept in   *)
(* the rows: its write only counts as a storage call that may fail.        *)
(***************************************************************************)
EXTENDS Integers, Sequences, FiniteSets, Bags, TLC

\* ------------------------------------------------------------------ bounds
\* Deliveries to /mp/webhook/v2 explored in one behaviour of SpecWebhook.
MaxDeliveries == 2
\* Deliveries to /mp/webhook explored in one behaviour of SpecWebhook.
MaxGeneric == 1
\* Tool calls explored in one behaviour of SpecOrders.
MaxToolCalls == 2
\* Minutes that pass in one behaviour of SpecTokens.
MaxNow == 3

\* -------------------------------------------------------- program constants
\* len(_processed_notifications) > 10000 clears the set (generic route only).
SeenCap == 10000
\* margin = timedelta(minutes=5) in ensure_valid_mp_token; time is in minutes.
Margin == 5

\* ------------------------------------------------------------------ domains
VetIds == {"V1", "V2"}
OrderIds == {"O1", "O2"}
\* The merchant each order row was created for (Order.vet_id, never rewritten).
OwnerOf(o) == IF o = "O1" THEN "V1" ELSE "V2"
\* Order ids a caller or a payment may name: the stored ones and an unknown one.
AnyOrderId == OrderIds \cup {"O9"}
\* The processor-side payment the notifications are about.
PaymentIds == {"P1"}

OrderStatus ==
    {"CREATED", "PAYMENT_PENDING_MP", "PAYMENT_AT_VET", "PAYMENT_APPROVED",
     "PAYMENT_REJECTED", "PREPARING", "READY_FOR_PICKUP", "OUT_FOR_DELIVERY",
     "DELIVERED", "CANCELLED", "COMPLETED", "PAYMENT_PENDING"}

\* Status strings the processor can report for a payment (MPPaymentStatus).
MPPaymentStatus ==
    {"pending", "approved", "authorized", "in_process", "in_mediation",
     "rejected", "cancelled", "refunded", "charged_back"}

\* ------------------------------------------------------------ string helpers
\* f"DTV|{vet_id}|{order_id}"
MakeRef(v, o) == <<"DTV", "|", v, "|", o>>

\* external_reference.startswith("DTV|")
StartsWithDTV(ref) == Len(ref) >= 2 /\ ref[1] = "DTV" /\ ref[2] = "|"

\* external_reference.split("|"): the sequence of parts, each a token sequence.
RECURSIVE SplitFrom(_, _, _, _)
SplitFrom(s, i, cur, acc) ==
    IF i > Len(s) THEN Append(acc, cur)
    ELSE IF s[i] = "|" THEN SplitFrom(s, i + 1, <<>>, Append(acc, cur))
    ELSE SplitFrom(s, i + 1, Append(cur, s[i]), acc)

Split(s) == SplitFrom(s, 1, <<>>, <<>>)

\* The string a part stands for: "" when empty, the token when it is one token,
\* and a string equal to no identifier when several tokens are glued together.
PartStr(p) == IF Len(p) = 0 THEN "" ELSE IF Len(p) = 1 THEN p[1] ELSE "?"

\* str(int(time.time())), the clock counting from 0.
TimeStr(t) == <<"t0", "t1", "t2", "t3", "t4", "t5", "t6", "t7">>[t + 1]

\* f"{vet_id}|{int(time.time())}"
MakeState(vet_id, t) == <<vet_id, "|", TimeStr(t)>>

\* f"{vet_id}:{payload.action}:{payment_id}" and f"{payload.action}:{payment_id}"
KeyV2(v, action, pid) == <<v, ":", action, ":", pid>>
KeyV1(action, pid) == <<action, ":", pid>>

\* ------------------------------------------------------------ the order store
\* An order row of the orders sheet: the columns the lifecycle reads and writes.
\* "" is an empty cell; external_reference is a token sequence, <<>> when empty.
NewOrderRow(v) ==
    [vet_id |-> v, status |-> "CREATED", payment_method |-> "",
     mp_preference_id |-> "", mp_payment_id |-> "", mp_status |-> "",
     external_reference |-> <<>>]

\* What stands for "no row" in an observation.
NoRow ==
    [vet_id |-> "", status |-> "", payment_method |-> "",
     mp_preference_id |-> "", mp_payment_id |-> "", mp_status |-> "",
     external_reference |-> <<>>]

\* ws.update_cell(i, col, value), one call per cell in the order given. A storage
\* exception after n calls leaves the first n cells written. The rows here keep
\* no updated_at: that cell, always the last one written, only counts as a call.
WriteCells(row, cells, n) ==
    [f \in DOMAIN row |->
        IF \E i \in 1..n : cells[i][1] = f
        THEN cells[CHOOSE i \in 1..n : cells[i][1] = f][2]
        ELSE row[f]]

\* The row a mistaken duplicate-payment guard would write (mutant).
PaymentStatusCellsGuarded(row, mp_payment_id, mp_status, status) ==
    <<<<"mp_payment_id", mp_payment_id>>, <<"mp_status", mp_status>>,
      <<"status", IF row.mp_payment_id = mp_payment_id
                  THEN "PAYMENT_REJECTED" ELSE status>>,
      <<"updated_at", "utcnow">>>>

\* The cells update_order_payment_status writes, in its order.
PaymentStatusCells(row, mp_payment_id, mp_status, status) ==
    <<<<"mp_payment_id", mp_payment_id>>, <<"mp_status", mp_status>>,
      <<"status", status>>, <<"updated_at", "utcnow">>>>

\* update_order_payment_status: the row whose order_id matches is rewritten cell
\* by cell; w is the number of cells written before a storage exception (4: none).
UpdateOrderPaymentStatus(os, order_id, mp_payment_id, mp_status, status, w) ==
    IF order_id \in DOMAIN os
    THEN [os EXCEPT ![order_id] =
            WriteCells(@, PaymentStatusCells(@, mp_payment_id, mp_status, status), w)]
    ELSE os

\* Its return value: True only when the row was found and no call raised.
UpdateOrderPaymentStatusOk(os, order_id, w) == order_id \in DOMAIN os /\ w = 4

\* sheets.update_order_status: status, then updated_at (w in 0..2).
SheetsUpdateOrderStatus(os, order_id, new_status, w) ==
    IF order_id \in DOMAIN os
    THEN [os EXCEPT ![order_id] = WriteCells(@, <<<<"status", new_status>>,
                                         <<"updated_at", "utcnow">>>>, w)]
    ELSE os

SheetsUpdateOrderStatusOk(os, order_id, w) == order_id \in DOMAIN os /\ w = 2

\* A set_order_payment_method that writes the status and not the method (mutant).
SetOrderPaymentMethodStatusOnly(os, order_id, payment_method, new_status, w) ==
    IF order_id \in DOMAIN os /\ w >= 2
    THEN [os EXCEPT ![order_id].status = new_status]
    ELSE os

\* set_order_payment_method: payment_method, status, updated_at (w in 0..3).
SetOrderPaymentMethod(os, order_id, payment_method, new_status, w) ==
    IF order_id \in DOMAIN os
    THEN [os EXCEPT ![order_id] =
            WriteCells(@, <<<<"payment_method", payment_method>>,
                            <<"status", new_status>>,
                            <<"updated_at", "utcnow">>>>, w)]
    ELSE os

SetOrderPaymentMethodOk(os, order_id, w) == order_id \in DOMAIN os /\ w = 3

\* update_order_preference: mp_preference_id, external_reference, payment_method,
\* status, updated_at, in that order (w in 0..5).
UpdateOrderPreference(os, order_id, preference_id, external_reference, w) ==
    IF order_id \in DOMAIN os
    THEN [os EXCEPT ![order_id] =
            WriteCells(@, <<<<"mp_preference_id", preference_id>>,
                            <<"external_reference", external_reference>>,
                            <<"payment_method", "MERCADOPAGO">>,
                            <<"status", "PAYMENT_PENDING_MP">>,
                            <<"updated_at", "utcnow">>>>, w)]
    ELSE os

\* get_order_by_id: the row, or None when absent or when the read raised.
OrderFound(os, order_id, readOk) == readOk /\ order_id \in DOMAIN os

\* get_order_by_external_reference: some row holds exactly that reference.
OrderFoundByReference(os, ref, readOk) ==
    readOk /\ \E o \in DOMAIN os : os[o].external_reference = ref

\* log_event appends one row to the events sheet; a storage error is swallowed
\* and the event is lost.
LogEvent(ev, type, order_id, vet_id, ok) ==
    IF ok
    THEN ev (+) SetToBag({[type |-> type, order_id |-> order_id, vet_id |-> vet_id]})
    ELSE ev

\* --------------------------------------------------------- status mappings
\* A mapping that sends an unrecognized status to CREATED (mutant).
MapMpStatusToOrderStatusNoDefault(mp_status) ==
    CASE mp_status = "approved" -> "PAYMENT_APPROVED"
      [] mp_status = "pending" -> "PAYMENT_PENDING_MP"
      [] mp_status = "in_process" -> "PAYMENT_PENDING_MP"
      [] mp_status = "rejected" -> "PAYMENT_REJECTED"
      [] mp_status = "cancelled" -> "CANCELLED"
      [] mp_status = "refunded" -> "PAYMENT_REJECTED"
      [] OTHER -> "CREATED"

\* A mapping that sends an approved payment straight to preparation (mutant).
MapMpStatusToOrderStatusPreparing(mp_status) ==
    CASE mp_status = "approved" -> "PREPARING"
      [] mp_status = "rejected" -> "PAYMENT_REJECTED"
      [] mp_status \in {"cancelled", "refunded"} -> "CANCELLED"
      [] OTHER -> "PAYMENT_PENDING_MP"

\* _map_mp_status_to_order_status
MapMpStatusToOrderStatus(mp_status) ==
    CASE mp_status = "approved" -> "PAYMENT_APPROVED"
      [] mp_status = "pending" -> "PAYMENT_PENDING_MP"
      [] mp_status = "in_process" -> "PAYMENT_PENDING_MP"
      [] mp_status = "rejected" -> "PAYMENT_REJECTED"
      [] mp_status = "cancelled" -> "CANCELLED"
      [] mp_status = "refunded" -> "CANCELLED"
      [] OTHER -> "PAYMENT_PENDING_MP"

\* _map_mp_status
MapMpStatus(mp_status) ==
    CASE mp_status = "approved" -> "approved"
      [] mp_status = "pending" -> "pending"
      [] mp_status = "in_process" -> "in_process"
      [] mp_status = "rejected" -> "rejected"
      [] mp_status = "cancelled" -> "cancelled"
      [] mp_status = "refunded" -> "refunded"
      [] OTHER -> "pending"

\* -------------------------------------------------------------- token vault
\* The vault is the token store's dict: a function from the connected merchants
\* to their StoredToken. Tokens are numbered by the processor in issue order.
StoredToken(access, refresh, expires_at, user) ==
    [access_token |-> access, refresh_token |-> refresh,
     expires_at |-> expires_at, mp_user_id |-> user]

\* The processor's answers to a refresh exchange, n being the next token number:
\* no 200 answer, a 200 answer without access_token, and a token pair with or
\* without a new refresh_token.
RefreshResponses(n) ==
    {[kind |-> "fail", access_token |-> 0, has_refresh |-> FALSE,
      refresh_token |-> 0, expires_in |-> 0],
     [kind |-> "malformed", access_token |-> 0, has_refresh |-> FALSE,
      refresh_token |-> 0, expires_in |-> 0],
     [kind |-> "ok", access_token |-> n, has_refresh |-> TRUE,
      refresh_token |-> n, expires_in |-> 4 * Margin],
     [kind |-> "ok", access_token |-> n, has_refresh |-> FALSE,
      refresh_token |-> 0, expires_in |-> 4 * Margin]}

\* The authorization codes a callback may carry: none, one the processor
\* refuses, and codes obtained by the holders of the processor accounts U1 and UX.
Codes == {"", "BAD", "TG-U1", "TG-UX"}

\* _exchange_code_for_tokens: None when the processor does not answer 200,
\* otherwise the token pair of the account that granted the code, n being the
\* next token number.
ExchangeCodeForTokens(code, n) ==
    IF code \in {"TG-U1", "TG-UX"}
    THEN [kind |-> "ok", access_token |-> n, refresh_token |-> n,
          expires_in |-> 4 * Margin, user_id |-> IF code = "TG-U1" THEN "U1" ELSE "UX"]
    ELSE [kind |-> "None"]

\* complete_mp_oauth(vet_id, code) at time t: the code is exchanged; a refused
\* code gives "invalid_code"; the tokens are saved under vet_id, "error" when
\* the store fails.
CompleteMpOauth(vlt, vet_id, code, n, t, saveOk) ==
    LET token_data == ExchangeCodeForTokens(code, n)
    IN IF token_data.kind = "None"
       THEN [status |-> "invalid_code", vault |-> vlt]
       ELSE LET tokens == StoredToken(token_data.access_token,
                                      token_data.refresh_token,
                                      t + token_data.expires_in, token_data.user_id)
            IN IF saveOk
               THEN [status |-> "success",
                     vault |-> [v \in DOMAIN vlt \cup {vet_id} |->
                                  IF v = vet_id THEN tokens ELSE vlt[v]]]
               ELSE [status |-> "error", vault |-> vlt]

\* The state values a callback may carry: none, values start_mp_oauth can hand
\* out, a bare merchant id, and a value with another first part.
StateInputs ==
    {<<>>, <<"V1">>, <<"V9", "|", "t0">>}
       \cup {MakeState(v, t) : v \in {"V1", "V2", "V3"}, t \in {0, 1}}

\* GET /mp/oauth/callback: 400 on a processor error or a missing parameter;
\* otherwise the first part of state is the merchant and complete_mp_oauth runs.
MpOauthCallbackCall(vlt, code, state, error, n, t, saveOk) ==
    IF error # "" THEN [http |-> 400, status |-> "", vet_id |-> "", vault |-> vlt]
    ELSE IF code = "" \/ state = <<>>
    THEN [http |-> 400, status |-> "", vet_id |-> "", vault |-> vlt]
    ELSE LET vet_id == PartStr(Split(state)[1])
             result == CompleteMpOauth(vlt, vet_id, code, n, t, saveOk)
         IN [http |-> IF result.status = "success" THEN 200 ELSE 400,
             status |-> result.status, vet_id |-> vet_id, vault |-> result.vault]

\* The vault without the entry of vet_id.
Without(data, vet_id) == [v \in DOMAIN data \ {vet_id} |-> data[v]]

\* LocalTokenStore.delete_token: an absent entry is a success; a present one is
\* removed and the file rewritten, writeOk telling whether the write succeeded.
LocalDeleteToken(data, vet_id, writeOk) ==
    IF vet_id \in DOMAIN data
    THEN [ok |-> writeOk, vault |-> IF writeOk THEN Without(data, vet_id) ELSE data]
    ELSE [ok |-> TRUE, vault |-> data]

\* SecretManagerTokenStore.delete_token: delete_secret raises for a secret that
\* does not exist and when the service cannot be reached (apiOk FALSE); every
\* exception gives False.
SecretManagerDeleteToken(secrets, vet_id, apiOk) ==
    IF apiOk /\ vet_id \in DOMAIN secrets
    THEN [ok |-> TRUE, vault |-> Without(secrets, vet_id)]
    ELSE [ok |-> FALSE, vault |-> secrets]

\* The two token stores get_token_store chooses between.
Backends == {"local", "secret_manager"}

DeleteToken(backend, vlt, vet_id, storeOk) ==
    IF backend = "local" THEN LocalDeleteToken(vlt, vet_id, storeOk)
    ELSE SecretManagerDeleteToken(vlt, vet_id, storeOk)

\* An ensure_valid_mp_token that takes a token at exactly the margin as valid
\* (mutant).
EnsureValidMpTokenAtMargin(vlt, vet_id, t, resp, saveOk) ==
    IF vet_id \notin DOMAIN vlt
    THEN [status |-> "not_connected", access_token |-> 0, refreshed |-> FALSE,
          vault |-> vlt]
    ELSE LET tokens == vlt[vet_id] IN
      IF tokens.expires_at - Margin >= t
      THEN [status |-> "success", access_token |-> tokens.access_token,
            refreshed |-> FALSE, vault |-> vlt]
      ELSE IF resp.kind = "fail"
      THEN [status |-> "refresh_failed", access_token |-> 0, refreshed |-> TRUE,
            vault |-> vlt]
      ELSE IF resp.kind = "malformed"
      THEN [status |-> "error", access_token |-> 0, refreshed |-> TRUE,
            vault |-> vlt]
      ELSE LET updated ==
                 StoredToken(resp.access_token,
                             IF resp.has_refresh THEN resp.refresh_token
                             ELSE tokens.refresh_token,
                             t + resp.expires_in, tokens.mp_user_id)
           IN [status |-> "success", access_token |-> updated.access_token,
               refreshed |-> TRUE,
               vault |-> IF saveOk THEN [vlt EXCEPT ![vet_id] = updated] ELSE vlt]

\* An ensure_valid_mp_token that falls back on the stored token when the refresh
\* fails (mutant).
EnsureValidMpTokenStale(vlt, vet_id, t, resp, saveOk) ==
    IF vet_id \notin DOMAIN vlt
    THEN [status |-> "not_connected", access_token |-> 0, refreshed |-> FALSE,
          vault |-> vlt]
    ELSE LET tokens == vlt[vet_id] IN
      IF tokens.expires_at - Margin > t
      THEN [status |-> "success", access_token |-> tokens.access_token,
            refreshed |-> FALSE, vault |-> vlt]
      ELSE IF resp.kind = "fail"
      THEN [status |-> "success", access_token |-> tokens.access_token,
            refreshed |-> TRUE, vault |-> vlt]
      ELSE IF resp.kind = "malformed"
      THEN [status |-> "error", access_token |-> 0, refreshed |-> TRUE,
            vault |-> vlt]
      ELSE LET updated ==
                 StoredToken(resp.access_token,
                             IF resp.has_refresh THEN resp.refresh_token
                             ELSE tokens.refresh_token,
                             t + resp.expires_in, tokens.mp_user_id)
           IN [status |-> "success", access_token |-> updated.access_token,
               refreshed |-> TRUE,
               vault |-> IF saveOk THEN [vlt EXCEPT ![vet_id] = updated] ELSE vlt]

\* ensure_valid_mp_token(vet_id) at time t, resp being the processor's answer to
\* the refresh exchange if one is sent and saveOk whether save_token succeeds (its
\* result is not looked at). Gives the returned status and token, whether the
\* refresh endpoint was called, and the vault afterwards.
EnsureValidMpToken(vlt, vet_id, t, resp, saveOk) ==
    IF vet_id \notin DOMAIN vlt
    THEN [status |-> "not_connected", access_token |-> 0, refreshed |-> FALSE,
          vault |-> vlt]
    ELSE LET tokens == vlt[vet_id] IN
      IF tokens.expires_at - Margin > t
      THEN [status |-> "success", access_token |-> tokens.access_token,
            refreshed |-> FALSE, vault |-> vlt]
      ELSE IF resp.kind = "fail"
      THEN [status |-> "refresh_failed", access_token |-> 0, refreshed |-> TRUE,
            vault |-> vlt]
      ELSE IF resp.kind = "malformed"
      THEN [status |-> "error", access_token |-> 0, refreshed |-> TRUE,
            vault |-> vlt]
      ELSE LET updated ==
                 StoredToken(resp.access_token,
                             IF resp.has_refresh THEN resp.refresh_token
                             ELSE tokens.refresh_token,
                             t + resp.expires_in, tokens.mp_user_id)
           IN [status |-> "success", access_token |-> updated.access_token,
               refreshed |-> TRUE,
               vault |-> IF saveOk THEN [vlt EXCEPT ![vet_id] = updated] ELSE vlt]

\* ------------------------------------------------------------------ webhooks
\* A webhook body: whether it parses as JSON, whether it validates as
\* MPWebhookPayload, and its type, action and data.id ("" when absent). The id
\* "NEW" stands for a payment id no earlier delivery carried.
Body(json, valid, type, action, id) ==
    [json |-> json, valid |-> valid, type |-> type, action |-> action, id |-> id]

Actions == {"payment.created", "payment.updated"}

BodiesV2 ==
    {Body(FALSE, FALSE, "", "", ""), Body(TRUE, FALSE, "", "", ""),
     Body(TRUE, TRUE, "plan", "created", "P1"),
     Body(TRUE, TRUE, "payment", "payment.created", "")}
    \cup {Body(TRUE, TRUE, "payment", a, p) : a \in Actions, p \in PaymentIds}

BodiesV1 == BodiesV2 \cup {Body(TRUE, TRUE, "payment", "payment.created", "NEW")}

\* A handler that lets exceptions through (mutant).
TryExceptNone(r) == r

\* try: ... except Exception: return {"status": "error"}. "raise" stands for an
\* exception leaving the body.
TryExcept(r) == IF r = "raise" THEN "error" ELSE r

\* mercadopago_webhook_v2 up to the idempotency check: what the handler returns
\* at once, or "proceed".
WebhookV2Front(sn, vet_id, body) ==
    IF ~body.json \/ ~body.valid THEN "raise"
    ELSE IF body.type # "payment" THEN "ignored"
    ELSE IF body.id = "" THEN "ignored"
    ELSE IF KeyV2(vet_id, body.action, body.id) \in sn THEN "duplicate"
    ELSE "proceed"

\* mercadopago_webhook up to the idempotency check.
WebhookV1Front(sn, body) ==
    IF ~body.json \/ ~body.valid THEN "raise"
    ELSE IF body.type # "payment" THEN "ignored"
    ELSE IF body.id = "" THEN "ignored"
    ELSE IF body.id # "NEW" /\ KeyV1(body.action, body.id) \in sn THEN "duplicate"
    ELSE "proceed"

\* A reference check that forgets to compare the merchant (mutant).
ValidateReferenceNoVet(ref, vet_id) ==
    IF ref = <<>> \/ ~StartsWithDTV(ref)
    THEN [ok |-> FALSE, result |-> "ignored", reason |-> "invalid_reference",
          order_id |-> ""]
    ELSE IF Len(Split(ref)) # 3
    THEN [ok |-> FALSE, result |-> "ignored",
          reason |-> "invalid_reference_format", order_id |-> ""]
    ELSE [ok |-> TRUE, result |-> "", reason |-> "",
          order_id |-> PartStr(Split(ref)[3])]

\* _process_payment_with_vet, step 4: the checks on external_reference.
ValidateReference(ref, vet_id) ==
    IF ref = <<>> \/ ~StartsWithDTV(ref)
    THEN [ok |-> FALSE, result |-> "ignored", reason |-> "invalid_reference",
          order_id |-> ""]
    ELSE IF Len(Split(ref)) # 3
    THEN [ok |-> FALSE, result |-> "ignored",
          reason |-> "invalid_reference_format", order_id |-> ""]
    ELSE IF PartStr(Split(ref)[2]) # vet_id
    THEN [ok |-> FALSE, result |-> "error", reason |-> "vet_mismatch",
          order_id |-> ""]
    ELSE [ok |-> TRUE, result |-> "", reason |-> "",
          order_id |-> PartStr(Split(ref)[3])]

\* The three notifications of an approved payment.
ApprovedFanout(order_id) ==
    SetToBag({[kind |-> "vet_payment", order_id |-> order_id],
              [kind |-> "customer_status", order_id |-> order_id],
              [kind |-> "ops_payment_approved", order_id |-> order_id]})

\* A _handle_approved_payment without its try/except: a failed lookup or a
\* failed sender leaves it as an exception (mutant).
HandleApprovedPaymentRaises(os, nf, vet_id, order_id, lookupOk, sendOk) ==
    [notifs |-> IF lookupOk /\ vet_id \in VetIds
                   /\ OrderFoundByReference(os, MakeRef(vet_id, order_id), lookupOk)
                THEN nf (+) ApprovedFanout(order_id)
                ELSE nf,
     raised |-> ~lookupOk \/ ~sendOk]

\* _handle_approved_payment: the merchant and the order (by its reference) are
\* looked up; when either is missing, or a lookup raises (lookupOk FALSE),
\* nothing is sent, otherwise the three senders are called. A sender whose
\* delivery fails (sendOk FALSE) returns a status nobody reads. No exception
\* leaves the function.
HandleApprovedPayment(os, nf, vet_id, order_id, lookupOk, sendOk) ==
    [notifs |-> IF lookupOk /\ vet_id \in VetIds
                   /\ OrderFoundByReference(os, MakeRef(vet_id, order_id), lookupOk)
                THEN nf (+) ApprovedFanout(order_id)
                ELSE nf,
     raised |-> FALSE]

\* The changes of a payment's status on the processor's side.
MpLifecycle(s) ==
    CASE s = "pending" -> {"in_process", "authorized", "approved", "rejected", "cancelled"}
      [] s = "in_process" -> {"approved", "rejected"}
      [] s = "authorized" -> {"approved", "cancelled"}
      [] s = "approved" -> {"refunded", "charged_back"}
      [] OTHER -> {}

\* --------------------------------------------------------------- order tools
\* str.upper() on the strings the tools are called with.
Upper(str) ==
    CASE str = "delivered" -> "DELIVERED"
      [] str = "cancelled" -> "CANCELLED"
      [] str = "payment_at_vet" -> "PAYMENT_AT_VET"
      [] str = "at_vet" -> "AT_VET"
      [] str = "mercadopago" -> "MERCADOPAGO"
      [] str = "delivery" -> "DELIVERY"
      [] OTHER -> str

\* The new_status strings update_order_status is called with.
StatusInputs == OrderStatus \cup {"delivered", "cancelled", "payment_at_vet", "SHIPPED"}

\* The payment_method strings set_payment_method is called with.
MethodInputs == {"MERCADOPAGO", "AT_VET", "at_vet", "mercadopago", "CASH"}

\* update_order_status: distributor_states and payment_states.
DistributorStates ==
    {"PREPARING", "READY_FOR_PICKUP", "OUT_FOR_DELIVERY", "DELIVERED", "COMPLETED"}

PaymentStates == {"PAYMENT_PENDING", "PAYMENT_APPROVED", "PAYMENT_REJECTED", "CREATED"}

\* A list that lets completed orders be cancelled (mutant).
NonCancellableDelivered == {"DELIVERED"}

\* cancel_order: non_cancellable.
NonCancellable == {"DELIVERED", "COMPLETED"}

\* What a tool call gives: the returned status and the sheets afterwards.
ToolResult(status, os, ev, nf) ==
    [status |-> status, orders |-> os, events |-> ev, notifs |-> nf]

\* cancel_order(order_id, notify_customer). readOk: get_order_by_id answers; w:
\* cells sheets.update_order_status writes before a storage exception; logOk: the
\* events sheet answers.
CancelOrderCall(os, ev, nf, order_id, notify_customer, readOk, w, logOk) ==
    IF ~OrderFound(os, order_id, readOk)
    THEN ToolResult("not_found", os, ev, nf)
    ELSE LET old_status == os[order_id].status IN
      IF old_status = "CANCELLED"
      THEN ToolResult("already_cancelled", os, ev, nf)
      ELSE IF old_status \in NonCancellable
      THEN ToolResult("cannot_cancel", os, ev, nf)
      ELSE IF ~SheetsUpdateOrderStatusOk(os, order_id, w)
      THEN ToolResult("error", SheetsUpdateOrderStatus(os, order_id, "CANCELLED", w),
                      ev, nf)
      ELSE ToolResult("cancelled",
                      SheetsUpdateOrderStatus(os, order_id, "CANCELLED", w),
                      LogEvent(ev, "ORDER_CANCELLED", order_id, os[order_id].vet_id,
                               logOk),
                      IF notify_customer
                      THEN nf (+) SetToBag({[kind |-> "customer_status",
                                             order_id |-> order_id]})
                      ELSE nf)

\* update_order_status(order_id, new_status, notify_customer=notify)
UpdateOrderStatusCall(os, ev, nf, order_id, new_status, notify, readOk, w, logOk) ==
    LET new_status_upper == Upper(new_status) IN
    IF new_status_upper = "CANCELLED"
    THEN CancelOrderCall(os, ev, nf, order_id, notify, readOk, w, logOk)
    ELSE IF new_status_upper \in DistributorStates
    THEN ToolResult("not_allowed", os, ev, nf)
    ELSE IF new_status_upper \in PaymentStates
    THEN ToolResult("not_allowed", os, ev, nf)
    ELSE ToolResult("invalid_status", os, ev, nf)

\* A set_payment_method that moves a MERCADOPAGO order to PAYMENT_PENDING_MP
\* (mutant).
SetPaymentMethodCallPending(os, ev, nf, order_id, payment_method, readOk, w, logOk) ==
    LET method_upper == Upper(payment_method)
        new_status == IF method_upper = "MERCADOPAGO" THEN "PAYMENT_PENDING_MP"
                      ELSE "PAYMENT_AT_VET"
    IN IF method_upper \notin {"MERCADOPAGO", "AT_VET"}
       THEN ToolResult("invalid_method", os, ev, nf)
       ELSE IF ~OrderFound(os, order_id, readOk)
       THEN ToolResult("not_found", os, ev, nf)
       ELSE ToolResult(IF SetOrderPaymentMethodOk(os, order_id, w) THEN "updated"
                       ELSE "error",
                       SetOrderPaymentMethod(os, order_id, method_upper, new_status, w),
                       ev, nf)

\* set_payment_method(order_id, payment_method); w: cells set_order_payment_method
\* writes before a storage exception.
SetPaymentMethodCall(os, ev, nf, order_id, payment_method, readOk, w, logOk) ==
    LET method_upper == Upper(payment_method)
        new_status == IF method_upper = "MERCADOPAGO" THEN "CREATED"
                      ELSE "PAYMENT_AT_VET"
    IN IF method_upper \notin {"MERCADOPAGO", "AT_VET"}
       THEN ToolResult("invalid_method", os, ev, nf)
       ELSE IF ~OrderFound(os, order_id, readOk)
       THEN ToolResult("not_found", os, ev, nf)
       ELSE IF ~SetOrderPaymentMethodOk(os, order_id, w)
       THEN ToolResult("error",
                       SetOrderPaymentMethod(os, order_id, method_upper, new_status, w),
                       ev, nf)
       ELSE ToolResult("updated",
                       SetOrderPaymentMethod(os, order_id, method_upper, new_status, w),
                       LogEvent(ev, "ORDER_STATUS_CHANGED", order_id,
                                os[order_id].vet_id, logOk),
                       nf)

\* A create_payment_link that does not check whose order it is (mutant).
CreatePaymentLinkCallAnyVet(os, ev, nf, tokenStatus, vet_id, order_id, readOk, pref, w) ==
    IF tokenStatus # "success"
    THEN ToolResult(IF tokenStatus = "not_connected" THEN "mp_not_connected"
                    ELSE "error", os, ev, nf)
    ELSE IF ~OrderFound(os, order_id, readOk)
    THEN ToolResult("order_not_found", os, ev, nf)
    ELSE IF pref = ""
    THEN ToolResult("error", os, ev, nf)
    ELSE ToolResult("success",
                    UpdateOrderPreference(os, order_id, pref,
                                          MakeRef(vet_id, order_id), w),
                    ev, nf)

\* A create_payment_link that marks the order as awaiting payment before it asks
\* the processor for the preference (mutant).
CreatePaymentLinkCallEager(os, ev, nf, tokenStatus, vet_id, order_id, readOk, pref, w) ==
    IF tokenStatus # "success"
    THEN ToolResult(IF tokenStatus = "not_connected" THEN "mp_not_connected"
                    ELSE "error", os, ev, nf)
    ELSE IF ~OrderFound(os, order_id, readOk)
    THEN ToolResult("order_not_found", os, ev, nf)
    ELSE IF os[order_id].vet_id # vet_id
    THEN ToolResult("error", os, ev, nf)
    ELSE ToolResult(IF pref = "" THEN "error" ELSE "success",
                    UpdateOrderPreference(os, order_id, pref,
                                          MakeRef(vet_id, order_id), w),
                    ev, nf)

\* create_payment_link(vet_id, order_id) once the token is at hand: tokenStatus
\* is what ensure_valid_mp_token returned, pref the id of the preference
\* the processor created ("" when it created none), w the cells
\* update_order_preference writes before a storage exception.
CreatePaymentLinkCall(os, ev, nf, tokenStatus, vet_id, order_id, readOk, pref, w) ==
    IF tokenStatus # "success"
    THEN ToolResult(IF tokenStatus = "not_connected" THEN "mp_not_connected"
                    ELSE "error", os, ev, nf)
    ELSE IF ~OrderFound(os, order_id, readOk)
    THEN ToolResult("order_not_found", os, ev, nf)
    ELSE IF os[order_id].vet_id # vet_id
    THEN ToolResult("error", os, ev, nf)
    ELSE IF pref = ""
    THEN ToolResult("error", os, ev, nf)
    ELSE ToolResult("success",
                    UpdateOrderPreference(os, order_id, pref,
                                          MakeRef(vet_id, order_id), w),
                    ev, nf)

\* The distributor works on the orders sheet: the status it may give an order
\* that has status st.
FulfilmentNext(st) ==
    CASE st \in {"PAYMENT_APPROVED", "PAYMENT_AT_VET"} -> {"PREPARING"}
      [] st = "PREPARING" -> {"READY_FOR_PICKUP", "OUT_FOR_DELIVERY"}
      [] st \in {"READY_FOR_PICKUP", "OUT_FOR_DELIVERY"} -> {"DELIVERED"}
      [] st = "DELIVERED" -> {"COMPLETED"}
      [] OTHER -> {}

\* ------------------------------------------------------- cart and create_order
\* Amounts are Decimal values, kept here in whole pesos.
Sessions == {"S1", "S2"}

\* The catalog sheet: price_customer, stock and active per sku.
Catalog ==
    [sku \in {"A", "B", "Z"} |->
        CASE sku = "A" -> [product_name |-> "Alimento", price_customer |-> 100,
                           stock |-> 2, active |-> TRUE]
          [] sku = "B" -> [product_name |-> "Bozal", price_customer |-> 0,
                           stock |-> 1, active |-> TRUE]
          [] OTHER -> [product_name |-> "Zeta", price_customer |-> 50,
                       stock |-> 1, active |-> FALSE]]

\* str.strip().lower() on the zone names create_order is called with.
NormalizeZone(zone) ==
    CASE zone = "CABA" -> "caba"
      [] zone = " San Isidro" -> "san isidro"
      [] OTHER -> zone

\* The shipping sheet: Zona (normalized) -> Precio.
ShippingTable ==
    [z \in {"caba", "san isidro"} |-> IF z = "caba" THEN 30 ELSE 70]

\* Python values that meet in create_order's arithmetic.
Dec(n) == [kind |-> "Decimal", value |-> n]
None == [kind |-> "None"]

\* sheets.get_shipping_cost: the Decimal price of the zone, None when the zone
\* is not in the sheet or the sheet cannot be read.
SheetsGetShippingCost(zone, readOk) ==
    IF readOk /\ NormalizeZone(zone) \in DOMAIN ShippingTable
    THEN Dec(ShippingTable[NormalizeZone(zone)])
    ELSE None

\* orders.get_shipping_cost, the tool defined in orders.py after the import of
\* the function of the same name from sheets: the name get_shipping_cost in
\* orders.py is bound to this one. It returns a dict in every case.
GetShippingCost(zone, readOk) ==
    LET cost == SheetsGetShippingCost(zone, readOk) IN
    IF cost = None
    THEN [kind |-> "dict", status |-> "not_found", zone |-> zone]
    ELSE [kind |-> "dict", status |-> "found", zone |-> zone,
          shipping_cost |-> cost.value]

\* Decimal.__add__: the sum of two Decimals; any other operand is a TypeError.
DecimalAdd(a, b) ==
    IF a.kind = "Decimal" /\ b.kind = "Decimal" THEN Dec(a.value + b.value)
    ELSE [kind |-> "TypeError"]

\* The sum of the unit prices, quantities left out.
RECURSIVE TotalAmountUnits(_)
TotalAmountUnits(items) ==
    IF items = <<>> THEN 0
    ELSE Head(items).unit_price + TotalAmountUnits(Tail(items))

\* CartSummary.total_amount: the sum of unit_price * quantity over the items.
RECURSIVE TotalAmount(_)
TotalAmount(items) ==
    IF items = <<>> THEN 0
    ELSE Head(items).unit_price * Head(items).quantity + TotalAmount(Tail(items))

\* The index of the item of that sku in a cart, 0 when there is none.
IndexOfSku(items, sku) ==
    IF \E i \in 1..Len(items) : items[i].product_sku = sku
    THEN CHOOSE i \in 1..Len(items) : items[i].product_sku = sku
    ELSE 0

\* add_to_cart(session_id, product_sku, quantity): the status returned and the
\* items of the cart afterwards. readOk: the catalog sheet answers.
AddToCartCall(items, product_sku, quantity, readOk) ==
    IF quantity <= 0 THEN [status |-> "error", items |-> items]
    ELSE IF ~readOk \/ product_sku \notin DOMAIN Catalog
    THEN [status |-> "not_found", items |-> items]
    ELSE IF ~Catalog[product_sku].active
    THEN [status |-> "not_found", items |-> items]
    ELSE LET idx == IndexOfSku(items, product_sku)
             current_qty == IF idx = 0 THEN 0 ELSE items[idx].quantity
             total_qty == current_qty + quantity
             item == [product_sku |-> product_sku,
                      product_name |-> Catalog[product_sku].product_name,
                      quantity |-> total_qty,
                      unit_price |-> Catalog[product_sku].price_customer]
         IN IF total_qty > Catalog[product_sku].stock
            THEN [status |-> "no_stock", items |-> items]
            ELSE IF idx # 0
            THEN [status |-> "updated", items |-> [items EXCEPT ![idx] = item]]
            ELSE [status |-> "added", items |-> Append(items, item)]

\* sheets.create_customer: a row is appended unless this merchant already has a
\* customer of that phone or email; a storage error is swallowed.
CreateCustomer(cu, vet_id, customer, ok) ==
    IF ok THEN cu \cup {[vet_id |-> vet_id, email |-> customer.email]} ELSE cu

\* The customers create_order is called for: pydantic accepts the first one and
\* refuses the second (a one-letter name).
CustomerInputs ==
    {[name |-> "Ana", email |-> "ana@x", valid |-> TRUE],
     [name |-> "A", email |-> "a@x", valid |-> FALSE]}

\* str(Decimal) and Decimal(str): the text of an amount and the amount of a text.
Str(n) == [kind |-> "str", text |-> n]
DecimalOfStr(t) == t.text

\* json.dumps([item.model_dump() for item in items], default=str): the items
\* cell; a Decimal unit_price is written as its text.
JsonDumps(items) ==
    [i \in 1..Len(items) |-> [items[i] EXCEPT !.unit_price = Str(@)]]

\* A reading of the items cell that gives the items last first (mutant).
ParseItemsReversed(json) ==
    [i \in 1..Len(json) |->
        [json[Len(json) + 1 - i] EXCEPT !.unit_price = DecimalOfStr(@)]]

\* _parse_order_row on the items cell: json.loads, then one CartItem per entry
\* from its product_sku, product_name, quantity and unit_price.
ParseItems(json) ==
    [i \in 1..Len(json) |->
        [product_sku |-> json[i].product_sku,
         product_name |-> json[i].product_name,
         quantity |-> json[i].quantity,
         unit_price |-> DecimalOfStr(json[i].unit_price)]]

\* The order row create_order_record appends: the lifecycle columns of a new
\* order and the delivery and money columns. The money cells hold whole amounts,
\* which the sheet gives back as the numbers they are.
OrderRecord(vet_id, mode, zone, items, subtotal, shipping_cost, total_amount) ==
    NewOrderRow(vet_id) @@
    [delivery_mode |-> mode, delivery_zone |-> zone, items |-> JsonDumps(items),
     subtotal |-> subtotal, shipping_cost |-> shipping_cost,
     total_amount |-> total_amount]

\* _parse_order_row: the items are read from their cell, and a subtotal of 0
\* beside a positive total_amount is read as the total_amount.
ParseOrderRow(row) ==
    [row EXCEPT !.items = ParseItems(row.items),
                !.subtotal = IF row.subtotal = 0 /\ row.total_amount > 0
                             THEN row.total_amount ELSE row.subtotal]

\* get_order_by_id: the parsed row of that order_id, None when there is none.
GetOrderById(os, order_id) ==
    IF order_id \in DOMAIN os THEN ParseOrderRow(os[order_id]) ELSE None

\* A clear_cart that leaves the items where they are (mutant).
ClearCartCallKeeps(items) ==
    [status |-> IF items = <<>> THEN "already_empty" ELSE "cleared", items |-> items]

\* clear_cart on a cart holding items: the status returned and the items of the
\* cart afterwards.
ClearCartCall(items) ==
    [status |-> IF items = <<>> THEN "already_empty" ELSE "cleared", items |-> <<>>]

\* A get_cart_for_order that hands out the cart whatever it holds (mutant).
GetCartForOrderAlways(items) == [kind |-> "CartSummary", items |-> items]

\* get_cart_for_order: the cart of the session, None when it has no item.
GetCartForOrder(items) ==
    IF items = <<>> THEN None ELSE [kind |-> "CartSummary", items |-> items]

\* What create_order gives: the returned status and order_id and the stores
\* afterwards.
CreateResult(status, order_id, os, ev, nf, items, cu) ==
    [status |-> status, order_id |-> order_id, orders |-> os, events |-> ev,
     notifs |-> nf, items |-> items, customers |-> cu]

\* create_order on the cart holding items. order_id is the id uuid4 gives;
\* shipOk, custOk, saveOk, logOk: the shipping, customers, orders and events
\* sheets answer.
CreateOrderCall(os, ev, nf, items, cu, vet_id, customer, delivery_mode, delivery_address, delivery_zone, order_id, shipOk, custOk, saveOk, logOk) ==
    LET mode == Upper(delivery_mode)
        refused(status) == CreateResult(status, "", os, ev, nf, items, cu)
    IN IF GetCartForOrder(items) = None THEN refused("empty_cart")
       ELSE IF ~customer.valid THEN refused("validation_error")
       ELSE IF mode \notin {"PICKUP", "DELIVERY"} THEN refused("validation_error")
       ELSE IF mode = "DELIVERY" /\ delivery_address = ""
       THEN refused("validation_error")
       ELSE IF mode = "DELIVERY" /\ delivery_zone = ""
       THEN refused("validation_error")
       ELSE LET shipping_cost_result ==
                    IF mode = "DELIVERY" /\ delivery_zone # ""
                    THEN GetShippingCost(delivery_zone, shipOk)
                    ELSE Dec(0)
                registered == CreateCustomer(cu, vet_id, customer, custOk)
                subtotal == Dec(TotalAmount(items))
                total_amount == DecimalAdd(subtotal, shipping_cost_result)
            IN IF shipping_cost_result = None THEN refused("validation_error")
               ELSE IF total_amount.kind = "TypeError"
               THEN CreateResult("error", "", os, ev, nf, items, registered)
               ELSE IF ~saveOk
               THEN CreateResult("error", "", os, ev, nf, items, registered)
               ELSE CreateResult("created", order_id,
                       (order_id :> OrderRecord(vet_id, mode,
                                        IF mode = "DELIVERY" THEN delivery_zone
                                        ELSE "",
                                        items, subtotal.value,
                                        shipping_cost_result.value,
                                        total_amount.value)) @@ os,
                       LogEvent(ev, "ORDER_CREATED", order_id, vet_id, logOk),
                       nf (+) SetToBag({[kind |-> "ops_order_created",
                                         order_id |-> order_id]}),
                       ClearCartCall(items).items, registered)

\* -------------------------------------------------------------------- state
VARIABLES
    orders,        \* the orders sheet: order_id -> row
    events,        \* the events sheet: a bag of audit events
    notifs,        \* calls made to the notifiers: a bag
    seen,          \* _processed_notifications: the keys about PaymentIds
    otherKeys,     \* _processed_notifications: how many other keys it holds
    inflight,      \* the webhook/v2 requests awaiting their payment fetch: a bag
    payStatus,     \* processor: the payment's current status
    payRef,        \* processor: the payment's external_reference
    vault,         \* token store: vet_id -> StoredToken
    now,           \* clock, in minutes
    mpIssued,      \* processor: number of the last token it issued
    last,          \* observation of the last call that returned
    nCalls,        \* calls started so far, per entry point
    everKeys,      \* history: every key webhook/v2 has inserted
    freshApplied,  \* history: the payment's current status was fetched and written
    carts,         \* _carts: session_id -> the items of its cart
    customers,     \* the customers sheet: a set of rows
    refreshing,    \* the ensure_valid_mp_token calls under way: caller -> frame
    exchanges,     \* processor: the refresh exchanges it received, in order
    oauthStates    \* history: the state values start_mp_oauth has handed out

vars ==
    <<orders, events, notifs, seen, otherKeys, inflight, payStatus, payRef, vault,
      now, mpIssued, last, nCalls, everKeys, freshApplied, carts, customers,
      refreshing, exchanges, oauthStates>>

\* The threads or server instances that may be inside ensure_valid_mp_token at
\* the same time.
Callers == {"c1", "c2"}

\* The local variables of a call of ensure_valid_mp_token: where it is, the
\* tokens it read, the answer of the refresh exchange, what it returned.
Frame(pc, vet_id, tokens, new_tokens, status) ==
    [pc |-> pc, vet_id |-> vet_id, tokens |-> tokens, new_tokens |-> new_tokens,
     status |-> status]

IdleFrame == Frame("idle", "", <<>>, <<>>, "")

\* The requests the server handles at the same time.
Handlers == {"h1", "h2"}

\* What is recorded of a call when it returns: the operation and its arguments,
\* the returned status and reason, the processor status and reference it fetched,
\* the target order's row before and after, the audit events and notifier calls
\* it made, whether it changed the orders sheet, whether a storage or lookup call
\* failed in it, whether its key had been inserted by an earlier webhook/v2
\* call, and whether its order update returned True; of create_order also the
\* zone and address it was given, whether its customer data were valid, the cart
\* before and after, and whether it added a customer row; and the number of
\* calls it made to the token vault and to the processor; of create_order also
\* its session and whether the cart of another session changed; of a call that
\* asked for a token the status ensure_valid_mp_token gave, the access token it
\* returned, the time, the processor's answer to the refresh, the merchant's
\* vault entry before and after (<<>> when absent), and whether save_token
\* succeeded; of delete_token the backend, the merchant's entry before and
\* after, whether the backend answered, and whether the entry of another
\* merchant changed; of a webhook/v2 call that got an approved payment how its
\* notifications went: "ok", "lookup_failed" or "send_failed"; of
\* start_mp_oauth the state it handed out, and of the OAuth callback the code
\* and state it carried, the merchant it took from the state, the status of
\* complete_mp_oauth, and the merchant's vault entry before and after.
NoObs ==
    [op |-> "", vet |-> "", order |-> "", arg |-> "", result |-> "", reason |-> "",
     mp |-> "", ref |-> <<>>, before |-> NoRow, after |-> NoRow, audits |-> 0,
     sends |-> 0, changed |-> FALSE, fault |-> FALSE, replay |-> FALSE,
     written |-> FALSE, zone |-> "", address |-> "", valid |-> FALSE,
     cart_before |-> <<>>, cart_after |-> <<>>, registered |-> FALSE,
     calls |-> 0, session |-> "", others |-> FALSE, tok |-> "", access |-> 0,
     at |-> 0, resp |-> <<>>, stored |-> <<>>, kept |-> <<>>, saved |-> FALSE,
     notify |-> ""]

RowOf(os, order_id) == IF order_id \in DOMAIN os THEN os[order_id] ELSE NoRow

\* The row create_payment_link leaves: preference and reference stored.
LinkedOrderRow(v, o) ==
    [NewOrderRow(v) EXCEPT !.status = "PAYMENT_PENDING_MP",
                           !.payment_method = "MERCADOPAGO",
                           !.mp_preference_id = "PREF1",
                           !.external_reference = MakeRef(v, o)]

\* The external_reference values the fetched payment may carry.
PayRefs ==
    {MakeRef("V1", "O1"), <<>>, <<"DTV", "|", "V1">>,
     <<"DTV", "|", "V1", "|", "O1", "|", "X">>, <<"XYZ", "|", "V1", "|", "O1">>,
     MakeRef("V2", "O2"), MakeRef("V1", "O9"), MakeRef("V1", "O2")}

InitCommon ==
    /\ events = EmptyBag
    /\ notifs = EmptyBag
    /\ seen = {}
    /\ inflight = EmptyBag
    /\ now = 0
    /\ mpIssued = 2
    /\ last = NoObs
    /\ nCalls = [v1 |-> 0, v2 |-> 0, tool |-> 0]
    /\ everKeys = {}
    /\ freshApplied = FALSE
    /\ carts = [s \in Sessions |-> <<>>]
    /\ customers = {}
    /\ refreshing = [c \in Callers |-> IdleFrame]
    /\ exchanges = <<>>
    /\ oauthStates = {}

\* O1 has a payment link, O2 is newly created.
InitOrdersLinked ==
    orders = [o \in OrderIds |->
                IF o = "O1" THEN LinkedOrderRow("V1", "O1")
                ELSE NewOrderRow(OwnerOf(o))]

\* Reconciliation of O1's payment: V1 holds a token far from expiry.
InitReconcile ==
    /\ InitCommon
    /\ InitOrdersLinked
    /\ payStatus = "pending"
    /\ payRef = MakeRef("V1", "O1")
    /\ vault = [v \in {"V1"} |-> StoredToken(1, 1, 4 * Margin, "U1")]
    /\ otherKeys = 0

\* The same, in a process that has handled SeenCap - 1 notifications about other
\* payments.
InitDeliveries ==
    /\ InitCommon
    /\ InitOrdersLinked
    /\ payStatus = "pending"
    /\ payRef = MakeRef("V1", "O1")
    /\ vault = [v \in {"V1"} |-> StoredToken(1, 1, 4 * Margin, "U1")]
    /\ otherKeys = SeenCap - 1

\* Any delivery: the payment is approved or rejected and carries any of PayRefs,
\* V1 holds a token far from expiry, V2 one that expires in 2 minutes.
InitIngress ==
    /\ InitCommon
    /\ InitOrdersLinked
    /\ payStatus \in {"approved", "rejected"}
    /\ payRef \in PayRefs
    /\ vault = [v \in VetIds |->
                  IF v = "V1" THEN StoredToken(1, 1, 4 * Margin, "U1")
                  ELSE StoredToken(2, 2, Margin - 3, "U2")]
    /\ otherKeys = 0

\* ------------------------------------------------------------ webhook actions
\* POST /mp/webhook: the whole handler (it never suspends after the body is read).
MercadopagoWebhook(body) ==
    /\ nCalls.v1 < MaxGeneric
    /\ nCalls' = [nCalls EXCEPT !.v1 = @ + 1]
    /\ LET front == WebhookV1Front(seen, body)
           added == IF body.id = "NEW" THEN seen
                    ELSE seen \cup {KeyV1(body.action, body.id)}
           others == IF body.id = "NEW" THEN otherKeys + 1 ELSE otherKeys
           clear == Cardinality(added) + others > SeenCap
       IN IF front # "proceed"
          THEN /\ last' = [NoObs EXCEPT !.op = "webhook_v1", !.arg = body.action,
                                        !.result = TryExcept(front)]
               /\ UNCHANGED <<seen, otherKeys>>
          ELSE /\ seen' = IF clear THEN {} ELSE added
               /\ otherKeys' = IF clear THEN 0 ELSE others
               /\ last' = [NoObs EXCEPT !.op = "webhook_v1", !.arg = body.action,
                                        !.result = "received"]
    /\ UNCHANGED <<orders, events, notifs, inflight, payStatus, payRef, vault, now,
                   mpIssued, everKeys, freshApplied, carts, customers,
                   refreshing, exchanges,
                   oauthStates>>

\* POST /mp/webhook/v2?vet_id=..., from the request to the await of the payment
\* fetch: body, idempotency check and insert, token, GET sent. The processor
\* answers with the payment as it is now.
WebhookV2Receive(vet_id, body, resp, saveOk) ==
    /\ nCalls.v2 < MaxDeliveries
    /\ BagCardinality(inflight) < Cardinality(Handlers)
    /\ nCalls' = [nCalls EXCEPT !.v2 = @ + 1]
    /\ LET front == WebhookV2Front(seen, vet_id, body)
           key == KeyV2(vet_id, body.action, body.id)
           tok == EnsureValidMpToken(vault, vet_id, now, resp, saveOk)
           obs == [NoObs EXCEPT !.op = "webhook_v2", !.vet = vet_id,
                                !.arg = body.action,
                                !.replay = (body.json /\ body.valid
                                            /\ body.type = "payment"
                                            /\ body.id # "" /\ key \in everKeys)]
       IN IF front # "proceed"
          THEN /\ last' = [obs EXCEPT !.result = TryExcept(front)]
               /\ UNCHANGED <<seen, everKeys, vault, mpIssued, inflight>>
          ELSE /\ seen' = seen \cup {key}
               /\ everKeys' = everKeys \cup {key}
               /\ vault' = tok.vault
               /\ mpIssued' = IF tok.refreshed /\ resp.kind = "ok"
                              THEN mpIssued + 1 ELSE mpIssued
               /\ IF tok.status # "success"
                  THEN /\ last' = [obs EXCEPT
                                     !.result = "error", !.reason = "no_token",
                                     !.tok = tok.status,
                                     !.access = tok.access_token,
                                     !.calls = 1 + (IF tok.refreshed THEN 1 ELSE 0)]
                       /\ UNCHANGED inflight
                  ELSE /\ inflight' = inflight (+) SetToBag({
                              [vet |-> vet_id, action |-> body.action,
                               pid |-> body.id, mp |-> payStatus, ref |-> payRef,
                               replay |-> obs.replay]})
                       /\ UNCHANGED last
    /\ UNCHANGED <<orders, events, notifs, otherKeys, payStatus, payRef, now,
                   freshApplied, carts, customers,
                   refreshing, exchanges,
                   oauthStates>>

\* The same request from the answer of the fetch to its return: fetch is "ok",
\* "non200" or "raise"; w is the number of cells update_order_payment_status
\* writes before a storage exception; logOk and lookupOk tell whether the events
\* sheet and the lookups of the fan-out answer.
WebhookV2Resume(hd, fetch, w, logOk, lookupOk, sendOk) ==
    /\ BagIn(hd, inflight)
    /\ inflight' = inflight (-) SetToBag({hd})
    /\ LET ref == ValidateReference(hd.ref, hd.vet)
           obs == [NoObs EXCEPT !.op = "webhook_v2", !.vet = hd.vet,
                                !.arg = hd.action, !.replay = hd.replay]
           status == MapMpStatusToOrderStatus(hd.mp)
           updated == UpdateOrderPaymentStatus(orders, ref.order_id, hd.pid,
                                               MapMpStatus(hd.mp), status, w)
           ok == UpdateOrderPaymentStatusOk(orders, ref.order_id, w)
           logged == LogEvent(events, "PAYMENT_RECEIVED", ref.order_id, hd.vet, logOk)
           approved == IF hd.mp = "approved"
                       THEN HandleApprovedPayment(updated, notifs, hd.vet,
                                                  ref.order_id, lookupOk, sendOk)
                       ELSE [notifs |-> notifs, raised |-> FALSE]
           sent == approved.notifs
       IN IF fetch # "ok"
          THEN /\ last' = [obs EXCEPT
                             !.result = TryExcept(IF fetch = "raise" THEN "raise"
                                                  ELSE "error"),
                             !.reason = IF fetch = "raise" THEN "exception"
                                        ELSE "mp_api_error"]
               /\ UNCHANGED <<orders, events, notifs, freshApplied>>
          ELSE IF ~ref.ok
          THEN /\ last' = [obs EXCEPT !.result = ref.result, !.reason = ref.reason,
                                      !.mp = hd.mp, !.ref = hd.ref]
               /\ UNCHANGED <<orders, events, notifs, freshApplied>>
          ELSE /\ orders' = updated
               /\ events' = logged
               /\ notifs' = sent
               /\ freshApplied' = (freshApplied \/ (ok /\ hd.mp = payStatus))
               /\ last' = [obs EXCEPT
                     !.result = TryExcept(IF approved.raised THEN "raise"
                                          ELSE "processed"),
                     !.mp = hd.mp, !.ref = hd.ref,
                     !.order = ref.order_id,
                     !.notify = IF hd.mp # "approved" THEN ""
                                ELSE IF ~lookupOk THEN "lookup_failed"
                                ELSE IF ~sendOk THEN "send_failed"
                                ELSE "ok",
                     !.before = RowOf(orders, ref.order_id),
                     !.after = RowOf(updated, ref.order_id),
                     !.audits = BagCardinality(logged) - BagCardinality(events),
                     !.sends = BagCardinality(sent) - BagCardinality(notifs),
                     !.changed = (updated # orders),
                     !.fault = (w < 4 \/ ~logOk \/ ~lookupOk),
                     !.written = ok]
    /\ UNCHANGED <<seen, otherKeys, payStatus, payRef, vault, now, mpIssued, nCalls,
                   everKeys, carts, customers,
                   refreshing, exchanges,
                   oauthStates>>

\* The processor moves the payment to another status.
MpPaymentChanges(s) ==
    /\ s \in MpLifecycle(payStatus)
    /\ payStatus' = s
    /\ freshApplied' = FALSE
    /\ UNCHANGED <<orders, events, notifs, seen, otherKeys, inflight, payRef, vault,
                   now, mpIssued, last, nCalls, everKeys, carts, customers,
                   refreshing, exchanges,
                   oauthStates>>

\* Reconciliation of one payment of V1: deliveries of both actions, handled
\* concurrently, while the payment changes and the sheet store may fail.
NextReconcile ==
    \/ \E body \in {Body(TRUE, TRUE, "payment", a, "P1") : a \in Actions},
          resp \in RefreshResponses(mpIssued + 1) :
          WebhookV2Receive("V1", body, resp, TRUE)
    \/ \E hd \in BagToSet(inflight), w \in 0..4, logOk \in BOOLEAN,
          lookupOk \in BOOLEAN, sendOk \in BOOLEAN :
          WebhookV2Resume(hd, "ok", w, logOk, lookupOk, sendOk)
    \/ \E s \in MPPaymentStatus : MpPaymentChanges(s)

SpecReconcile == InitReconcile /\ [][NextReconcile]_vars

\* Deliveries on both routes, nothing failing.
NextDeliveries ==
    \/ \E body \in BodiesV1 : MercadopagoWebhook(body)
    \/ \E body \in {Body(TRUE, TRUE, "payment", a, "P1") : a \in Actions},
          resp \in RefreshResponses(mpIssued + 1) :
          WebhookV2Receive("V1", body, resp, TRUE)
    \/ \E hd \in BagToSet(inflight) : WebhookV2Resume(hd, "ok", 4, TRUE, TRUE, TRUE)
    \/ \E s \in MPPaymentStatus : MpPaymentChanges(s)

SpecDeliveries == InitDeliveries /\ [][NextDeliveries]_vars

\* Any body for any merchant, with every failure of the token, the fetch and the
\* sheet store.
NextIngress ==
    \/ \E vet_id \in VetIds, body \in BodiesV2,
          resp \in RefreshResponses(mpIssued + 1), saveOk \in BOOLEAN :
          WebhookV2Receive(vet_id, body, resp, saveOk)
    \/ \E hd \in BagToSet(inflight), fetch \in {"ok", "non200", "raise"},
          w \in 0..4, logOk \in BOOLEAN, lookupOk \in BOOLEAN :
          WebhookV2Resume(hd, fetch, w, logOk, lookupOk, TRUE)

SpecIngress == InitIngress /\ [][NextIngress]_vars

\* --------------------------------------------------------------- redelivery
\* The processor delivers a notification of V1's payment for the first time; the
\* token refresh, the payment fetch and the orders sheet may fail in it.
FirstDelivery ==
    \/ /\ nCalls.v2 = 0
       /\ \E action \in Actions, resp \in RefreshResponses(mpIssued + 1) :
             WebhookV2Receive("V1", Body(TRUE, TRUE, "payment", action, "P1"),
                              resp, TRUE)
    \/ /\ nCalls.v2 = 1
       /\ \E hd \in BagToSet(inflight), fetch \in {"ok", "non200", "raise"},
             w \in {0, 4} :
             WebhookV2Resume(hd, fetch, w, TRUE, TRUE, TRUE)

\* The processor delivers again once the first handling has returned: the same
\* notification, or the one of the payment's other action; nothing fails any
\* more.
Redelivery ==
    \/ /\ nCalls.v2 >= 1
       /\ inflight = EmptyBag
       /\ \E action \in Actions,
             resp \in {r \in RefreshResponses(mpIssued + 1) :
                          r.kind = "ok" /\ r.has_refresh} :
             WebhookV2Receive("V1", Body(TRUE, TRUE, "payment", action, "P1"),
                              resp, TRUE)
    \/ /\ nCalls.v2 >= 2
       /\ \E hd \in BagToSet(inflight) :
             WebhookV2Resume(hd, "ok", 4, TRUE, TRUE, TRUE)

\* O1 has a payment link and its payment has reached a final status; V1's token
\* is about to expire, so that handling a notification needs a refresh.
InitRedelivery ==
    /\ InitCommon
    /\ InitOrdersLinked
    /\ payStatus \in {"approved", "rejected", "cancelled"}
    /\ payRef = MakeRef("V1", "O1")
    /\ vault = [v \in {"V1"} |-> StoredToken(1, 1, Margin - 3, "U1")]
    /\ otherKeys \in 0..1

NextRedelivery == FirstDelivery \/ Redelivery

\* The processor does redeliver, and a handler that was started returns. A
\* delivery whose key is in the set returns "duplicate" and leaves the set, the
\* orders and the events as they are, so the deliveries after the last one
\* counted here are stuttering steps of the orders.
SpecRedelivery ==
    InitRedelivery /\ [][NextRedelivery]_vars /\ WF_vars(FirstDelivery)
       /\ WF_vars(Redelivery)

\* ---------------------------------------------------------- order tool actions
\* The observation of a tool call on order_id that gave r.
ToolObs(op, order_id, arg, r, fault) ==
    [NoObs EXCEPT !.op = op, !.order = order_id, !.arg = arg, !.result = r.status,
                  !.before = RowOf(orders, order_id),
                  !.after = RowOf(r.orders, order_id),
                  !.audits = BagCardinality(r.events) - BagCardinality(events),
                  !.sends = BagCardinality(r.notifs) - BagCardinality(notifs),
                  !.changed = (r.orders # orders),
                  !.fault = fault]

\* A tool call that gave r takes effect.
ToolReturns(r, obs) ==
    /\ nCalls.tool < MaxToolCalls
    /\ nCalls' = [nCalls EXCEPT !.tool = @ + 1]
    /\ orders' = r.orders
    /\ events' = r.events
    /\ notifs' = r.notifs
    /\ last' = obs
    /\ UNCHANGED <<seen, otherKeys, inflight, payStatus, payRef, now, everKeys,
                   freshApplied, carts, customers,
                   refreshing, exchanges,
                   oauthStates>>

CancelOrder(order_id, notify_customer, readOk, w, logOk) ==
    LET r == CancelOrderCall(orders, events, notifs, order_id, notify_customer,
                             readOk, w, logOk)
    IN /\ ToolReturns(r, ToolObs("cancel_order", order_id, "", r,
                                 ~readOk \/ w < 2 \/ ~logOk))
       /\ UNCHANGED <<vault, mpIssued>>

UpdateOrderStatus(order_id, new_status, notify_customer, readOk, w, logOk) ==
    LET r == UpdateOrderStatusCall(orders, events, notifs, order_id, new_status,
                                   notify_customer, readOk, w, logOk)
    IN /\ ToolReturns(r, ToolObs("update_order_status", order_id, new_status, r,
                                 ~readOk \/ w < 2 \/ ~logOk))
       /\ UNCHANGED <<vault, mpIssued>>

SetPaymentMethod(order_id, payment_method, readOk, w, logOk) ==
    LET r == SetPaymentMethodCall(orders, events, notifs, order_id, payment_method,
                                  readOk, w, logOk)
    IN /\ ToolReturns(r, ToolObs("set_payment_method", order_id, payment_method, r,
                                 ~readOk \/ w < 3 \/ ~logOk))
       /\ UNCHANGED <<vault, mpIssued>>

CreatePaymentLink(vet_id, order_id, resp, saveOk, readOk, preference_id, w) ==
    LET tok == EnsureValidMpToken(vault, vet_id, now, resp, saveOk)
        r == CreatePaymentLinkCall(orders, events, notifs, tok.status, vet_id,
                                   order_id, readOk, preference_id, w)
        asked == /\ tok.status = "success"
                 /\ OrderFound(orders, order_id, readOk)
                 /\ orders[order_id].vet_id = vet_id
    IN /\ ToolReturns(r, [ToolObs("create_payment_link", order_id, "", r,
                                  ~readOk \/ w < 5 \/ preference_id = "")
                            EXCEPT !.vet = vet_id, !.reason = tok.status,
                                   !.tok = tok.status,
                                   !.mp = preference_id,
                                   !.calls = 1 + (IF tok.refreshed THEN 1 ELSE 0)
                                               + (IF asked THEN 1 ELSE 0)])
       /\ vault' = tok.vault
       /\ mpIssued' = IF tok.refreshed /\ resp.kind = "ok"
                      THEN mpIssued + 1 ELSE mpIssued

\* The distributor moves an order along preparation and delivery.
DistributorSetsStatus(order_id, st) ==
    /\ order_id \in DOMAIN orders
    /\ st \in FulfilmentNext(orders[order_id].status)
    /\ orders' = [orders EXCEPT ![order_id].status = st]
    /\ UNCHANGED <<events, notifs, seen, otherKeys, inflight, payStatus, payRef,
                   vault, now, mpIssued, last, nCalls, everKeys, freshApplied, carts,
                   customers,
                   refreshing, exchanges,
                   oauthStates>>

\* The agent's tools on two new orders, O1 of V1 and O2 of V2; V1 holds a token
\* far from expiry, V2 one that expires in 2 minutes, V3 has not connected its
\* processor account.
InitOrders ==
    /\ InitCommon
    /\ orders = [o \in OrderIds |-> NewOrderRow(OwnerOf(o))]
    /\ payStatus = "pending"
    /\ payRef = MakeRef("V1", "O1")
    /\ vault = [v \in VetIds |->
                  IF v = "V1" THEN StoredToken(1, 1, 4 * Margin, "U1")
                  ELSE StoredToken(2, 2, Margin - 3, "U2")]
    /\ otherKeys = 0

NextOrders ==
    \/ \E order_id \in AnyOrderId, notify_customer \in BOOLEAN, readOk \in BOOLEAN,
          w \in 0..2, logOk \in BOOLEAN :
          CancelOrder(order_id, notify_customer, readOk, w, logOk)
    \/ \E order_id \in AnyOrderId, new_status \in StatusInputs, w \in 0..2 :
          UpdateOrderStatus(order_id, new_status, TRUE, TRUE, w, TRUE)
    \/ \E order_id \in AnyOrderId, payment_method \in MethodInputs,
          readOk \in BOOLEAN, w \in 0..3, logOk \in BOOLEAN :
          SetPaymentMethod(order_id, payment_method, readOk, w, logOk)
    \/ \E vet_id \in VetIds \cup {"V3"}, order_id \in AnyOrderId,
          resp \in {r \in RefreshResponses(mpIssued + 1) : r.kind = "fail"},
          readOk \in BOOLEAN, preference_id \in {"", "PREF1"}, w \in 0..5 :
          CreatePaymentLink(vet_id, order_id, resp, TRUE, readOk, preference_id, w)
    \/ \E order_id \in OrderIds, st \in OrderStatus :
          DistributorSetsStatus(order_id, st)

SpecOrders == InitOrders /\ [][NextOrders]_vars

\* -------------------------------------------------------- conversation actions
\* root_agent calls cancel_order in the conversation of merchant vet_id. The
\* tool is given the order id only; the merchant is recorded for the observer.
ConversationCancelOrder(vet_id, order_id, notify_customer) ==
    LET r == CancelOrderCall(orders, events, notifs, order_id, notify_customer,
                             TRUE, 2, TRUE)
    IN /\ ToolReturns(r, [ToolObs("cancel_order", order_id, "", r, FALSE)
                             EXCEPT !.vet = vet_id])
       /\ UNCHANGED <<vault, mpIssued>>

\* root_agent calls set_payment_method in the conversation of merchant vet_id.
ConversationSetPaymentMethod(vet_id, order_id, payment_method) ==
    LET r == SetPaymentMethodCall(orders, events, notifs, order_id, payment_method,
                                  TRUE, 3, TRUE)
    IN /\ ToolReturns(r, [ToolObs("set_payment_method", order_id, payment_method,
                                  r, FALSE)
                             EXCEPT !.vet = vet_id])
       /\ UNCHANGED <<vault, mpIssued>>

\* The conversations of V1 and V2 with the agent, each naming any order id.
NextConversation ==
    \/ \E vet_id \in VetIds, order_id \in AnyOrderId, notify_customer \in BOOLEAN :
          ConversationCancelOrder(vet_id, order_id, notify_customer)
    \/ \E vet_id \in VetIds, order_id \in AnyOrderId, payment_method \in MethodInputs :
          ConversationSetPaymentMethod(vet_id, order_id, payment_method)

SpecConversation == InitOrders /\ [][NextConversation]_vars

\* ---------------------------------------------------------------- token actions
\* The entry of a merchant in the vault, <<>> when it has none.
VaultEntry(vlt, vet_id) == IF vet_id \in DOMAIN vlt THEN vlt[vet_id] ELSE <<>>

\* A call of ensure_valid_mp_token(vet_id) on its own.
EnsureValidToken(vet_id, resp, saveOk) ==
    LET tok == EnsureValidMpToken(vault, vet_id, now, resp, saveOk)
    IN /\ nCalls.tool < MaxToolCalls
       /\ nCalls' = [nCalls EXCEPT !.tool = @ + 1]
       /\ vault' = tok.vault
       /\ mpIssued' = IF tok.refreshed /\ resp.kind = "ok"
                      THEN mpIssued + 1 ELSE mpIssued
       /\ last' = [NoObs EXCEPT
             !.op = "ensure_valid_mp_token", !.vet = vet_id,
             !.result = tok.status, !.tok = tok.status,
             !.access = tok.access_token, !.at = now,
             !.calls = IF tok.refreshed THEN 1 ELSE 0,
             !.resp = IF tok.refreshed THEN resp ELSE <<>>,
             !.stored = VaultEntry(vault, vet_id),
             !.kept = VaultEntry(tok.vault, vet_id),
             !.saved = saveOk]
       /\ UNCHANGED <<orders, events, notifs, seen, otherKeys, inflight, payStatus,
                      payRef, now, everKeys, freshApplied, carts, customers,
                   refreshing, exchanges,
                   oauthStates>>

\* A minute passes.
Tick ==
    /\ now < MaxNow
    /\ now' = now + 1
    /\ UNCHANGED <<orders, events, notifs, seen, otherKeys, inflight, payStatus,
                   payRef, vault, mpIssued, last, nCalls, everKeys, freshApplied,
                   carts, customers,
                   refreshing, exchanges,
                   oauthStates>>

\* O1 has a payment link whose payment is approved. V1's token expires in
\* Margin + 2 minutes, V2's in 2 minutes, V3 has not connected its account.
InitTokens ==
    /\ InitCommon
    /\ InitOrdersLinked
    /\ payStatus = "approved"
    /\ payRef = MakeRef("V1", "O1")
    /\ vault = [v \in VetIds |->
                  IF v = "V1" THEN StoredToken(1, 1, Margin + 2, "U1")
                  ELSE StoredToken(2, 2, Margin - 3, "U2")]
    /\ otherKeys = 0

\* Tokens are asked for directly, by create_payment_link and by the webhook, as
\* time passes; the processor may refuse the refresh and the vault may fail. The
\* refreshes that create_payment_link and the webhook need are refused.
NextTokens ==
    \/ \E vet_id \in VetIds \cup {"V3"}, resp \in RefreshResponses(mpIssued + 1),
          saveOk \in BOOLEAN :
          EnsureValidToken(vet_id, resp, saveOk)
    \/ Tick
    \/ \E vet_id \in VetIds \cup {"V3"}, order_id \in OrderIds,
          resp \in {r \in RefreshResponses(mpIssued + 1) : r.kind = "fail"} :
          CreatePaymentLink(vet_id, order_id, resp, TRUE, TRUE, "PREF1", 5)
    \/ \E vet_id \in VetIds \cup {"V3"},
          resp \in {r \in RefreshResponses(mpIssued + 1) : r.kind = "fail"} :
          WebhookV2Receive(vet_id, Body(TRUE, TRUE, "payment", "payment.updated", "P1"),
                           resp, TRUE)
    \/ \E hd \in BagToSet(inflight) : WebhookV2Resume(hd, "ok", 4, TRUE, TRUE, TRUE)

SpecTokens == InitTokens /\ [][NextTokens]_vars

\* ------------------------------------------- ensure_valid_mp_token, step by step
\* The refresh exchange that is refused: what a call would do with it tells
\* whether the call refreshes at all.
RefusedRefresh == CHOOSE r \in RefreshResponses(0) : r.kind = "fail"

\* A caller enters ensure_valid_mp_token(vet_id) and reads the stored tokens. It
\* returns at once when there are none or when they are valid; otherwise it goes
\* on to the refresh exchange with the tokens it read.
EnsureReads(c, vet_id) ==
    LET tok == EnsureValidMpToken(vault, vet_id, now, RefusedRefresh, TRUE)
    IN /\ refreshing[c].pc \in {"idle", "returned"}
       /\ nCalls.tool < MaxToolCalls
       /\ nCalls' = [nCalls EXCEPT !.tool = @ + 1]
       /\ refreshing' = [refreshing EXCEPT ![c] =
             IF tok.refreshed
             THEN Frame("refresh", vet_id, vault[vet_id], <<>>, "")
             ELSE Frame("returned", vet_id, VaultEntry(vault, vet_id), <<>>,
                        tok.status)]
       /\ UNCHANGED <<orders, events, notifs, seen, otherKeys, inflight, payStatus,
                      payRef, vault, now, mpIssued, last, everKeys, freshApplied,
                      carts, customers, exchanges,
                   oauthStates>>

\* The caller posts its refresh_token to the processor, which answers resp. A
\* refused or malformed answer ends the call.
EnsureExchanges(c, resp) ==
    LET f == refreshing[c]
        tok == EnsureValidMpToken(f.vet_id :> f.tokens, f.vet_id, now, resp, TRUE)
    IN /\ f.pc = "refresh"
       /\ exchanges' = Append(exchanges,
             [caller |-> c, vet_id |-> f.vet_id,
              refresh_token |-> f.tokens.refresh_token, kind |-> resp.kind,
              access_token |-> resp.access_token])
       /\ mpIssued' = IF resp.kind = "ok" THEN mpIssued + 1 ELSE mpIssued
       /\ refreshing' = [refreshing EXCEPT ![c] =
             IF resp.kind = "ok"
             THEN Frame("save", f.vet_id, f.tokens, resp, "")
             ELSE Frame("returned", f.vet_id, f.tokens, resp, tok.status)]
       /\ UNCHANGED <<orders, events, notifs, seen, otherKeys, inflight, payStatus,
                      payRef, vault, now, last, nCalls, everKeys, freshApplied,
                      carts, customers,
                   oauthStates>>

\* The caller saves the token it built from the tokens it read and the answer
\* it got, and returns.
EnsureSaves(c) ==
    LET f == refreshing[c]
        tok == EnsureValidMpToken(f.vet_id :> f.tokens, f.vet_id, now,
                                  f.new_tokens, TRUE)
    IN /\ f.pc = "save"
       /\ vault' = [vault EXCEPT ![f.vet_id] = tok.vault[f.vet_id]]
       /\ refreshing' = [refreshing EXCEPT ![c] =
             Frame("returned", f.vet_id, f.tokens, f.new_tokens, tok.status)]
       /\ UNCHANGED <<orders, events, notifs, seen, otherKeys, inflight, payStatus,
                      payRef, now, mpIssued, last, nCalls, everKeys, freshApplied,
                      carts, customers, exchanges,
                   oauthStates>>

\* Two callers ask for tokens with nothing to keep one out while the other is
\* between its read and its save; the vault itself answers every call.
NextRefresh ==
    \/ \E c \in Callers, vet_id \in VetIds \cup {"V3"} : EnsureReads(c, vet_id)
    \/ \E c \in Callers, resp \in RefreshResponses(mpIssued + 1) :
          EnsureExchanges(c, resp)
    \/ \E c \in Callers : EnsureSaves(c)

SpecRefresh == InitTokens /\ [][NextRefresh]_vars

\* ------------------------------------------------------------------- OAuth
\* start_mp_oauth(vet_id), the processor credentials being configured: the
\* authorization URL carries a new state value.
StartMpOauth(vet_id) ==
    /\ nCalls.tool < MaxToolCalls
    /\ nCalls' = [nCalls EXCEPT !.tool = @ + 1]
    /\ oauthStates' = oauthStates \cup {MakeState(vet_id, now)}
    /\ last' = [NoObs EXCEPT !.op = "start_mp_oauth", !.vet = vet_id,
                             !.result = "success", !.ref = MakeState(vet_id, now),
                             !.at = now]
    /\ UNCHANGED <<orders, events, notifs, seen, otherKeys, inflight, payStatus,
                   payRef, vault, now, mpIssued, everKeys, freshApplied,
                   carts, customers, refreshing, exchanges>>

\* GET /mp/oauth/callback?code=...&state=...&error=...
MpOauthCallback(code, state, error, saveOk) ==
    LET r == MpOauthCallbackCall(vault, code, state, error, mpIssued + 1, now, saveOk)
        granted == r.status \in {"success", "error"}
    IN /\ nCalls.tool < MaxToolCalls
       /\ nCalls' = [nCalls EXCEPT !.tool = @ + 1]
       /\ vault' = r.vault
       /\ mpIssued' = IF granted THEN mpIssued + 1 ELSE mpIssued
       /\ last' = [NoObs EXCEPT
             !.op = "mp_oauth_callback", !.vet = r.vet_id, !.arg = code,
             !.ref = state, !.result = r.status, !.at = now,
             !.calls = IF r.status = "" THEN 0 ELSE 1,
             !.stored = VaultEntry(vault, r.vet_id),
             !.kept = VaultEntry(r.vault, r.vet_id),
             !.saved = saveOk,
             !.others = \E v \in (DOMAIN vault \cup DOMAIN r.vault) \ {r.vet_id} :
                           VaultEntry(r.vault, v) # VaultEntry(vault, v)]
       /\ UNCHANGED <<orders, events, notifs, seen, otherKeys, inflight, payStatus,
                      payRef, now, everKeys, freshApplied, carts, customers,
                      refreshing, exchanges, oauthStates>>

\* Merchants start the authorization, and callbacks arrive with any code and any
\* state, as time passes.
NextOauth ==
    \/ \E vet_id \in VetIds \cup {"V3"} : StartMpOauth(vet_id)
    \/ \E code \in Codes, state \in StateInputs, error \in {"", "access_denied"},
          saveOk \in BOOLEAN :
          MpOauthCallback(code, state, error, saveOk)
    \/ Tick

SpecOauth == InitTokens /\ [][NextOauth]_vars

\* ------------------------------------------------------------- deleting tokens
\* delete_token(vet_id) on the store of the given backend.
DeleteMpToken(backend, vet_id, storeOk) ==
    LET out == DeleteToken(backend, vault, vet_id, storeOk)
    IN /\ vault' = out.vault
       /\ last' = [NoObs EXCEPT
             !.op = "delete_token", !.arg = backend, !.vet = vet_id,
             !.result = IF out.ok THEN "True" ELSE "False",
             !.stored = VaultEntry(vault, vet_id),
             !.kept = VaultEntry(out.vault, vet_id),
             !.saved = storeOk,
             !.others = \E v \in (VetIds \cup {"V3"}) \ {vet_id} :
                           VaultEntry(out.vault, v) # VaultEntry(vault, v)]
       /\ UNCHANGED <<orders, events, notifs, seen, otherKeys, inflight, payStatus,
                      payRef, now, mpIssued, nCalls, everKeys, freshApplied, carts,
                      customers, refreshing, exchanges,
                   oauthStates>>

\* Tokens are deleted, of merchants that have one and of merchants that have
\* none, between calls that use and refresh them.
NextVault ==
    \/ \E backend \in Backends, vet_id \in VetIds \cup {"V3"}, storeOk \in BOOLEAN :
          DeleteMpToken(backend, vet_id, storeOk)
    \/ \E vet_id \in VetIds \cup {"V3"}, resp \in RefreshResponses(mpIssued + 1) :
          EnsureValidToken(vet_id, resp, TRUE)
    \/ Tick

SpecVault == InitTokens /\ [][NextVault]_vars

\* ------------------------------------------------------------- checkout actions
\* add_to_cart on the cart of session_id.
AddToCart(session_id, product_sku, quantity, readOk) ==
    LET r == AddToCartCall(carts[session_id], product_sku, quantity, readOk)
    IN /\ carts' = [carts EXCEPT ![session_id] = r.items]
       /\ UNCHANGED <<orders, events, notifs, seen, otherKeys, inflight, payStatus,
                      payRef, vault, now, mpIssued, last, nCalls, everKeys,
                      freshApplied, customers,
                   refreshing, exchanges,
                   oauthStates>>

\* create_order for the cart of session_id; the order_id uuid4 gives is one no
\* order has.
CreateOrder(session_id, vet_id, customer, delivery_mode, delivery_address, delivery_zone, order_id, shipOk, custOk, saveOk, logOk) ==
    LET r == CreateOrderCall(orders, events, notifs, carts[session_id], customers,
                             vet_id, customer, delivery_mode, delivery_address,
                             delivery_zone, order_id, shipOk, custOk, saveOk, logOk)
    IN /\ order_id \notin DOMAIN orders
       /\ orders' = r.orders
       /\ events' = r.events
       /\ notifs' = r.notifs
       /\ carts' = [carts EXCEPT ![session_id] = r.items]
       /\ customers' = r.customers
       /\ last' = [NoObs EXCEPT
             !.op = "create_order", !.vet = vet_id, !.order = r.order_id,
             !.arg = delivery_mode, !.zone = delivery_zone,
             !.address = delivery_address, !.valid = customer.valid,
             !.result = r.status,
             !.after = RowOf(r.orders, r.order_id),
             !.audits = BagCardinality(r.events) - BagCardinality(events),
             !.sends = BagCardinality(r.notifs) - BagCardinality(notifs),
             !.changed = (r.orders # orders),
             !.fault = (~shipOk \/ ~custOk \/ ~saveOk \/ ~logOk),
             !.cart_before = carts[session_id], !.cart_after = r.items,
             !.session = session_id,
             !.others = (\E t \in Sessions \ {session_id} : carts'[t] # carts[t]),
             !.registered = (r.customers # customers)]
       /\ UNCHANGED <<seen, otherKeys, inflight, payStatus, payRef, vault, now,
                      mpIssued, nCalls, everKeys, freshApplied, refreshing,
                   exchanges,
                   oauthStates>>

\* The delivery modes, addresses and zones create_order is called with.
ModeInputs == {"PICKUP", "delivery", "DRONE"}
AddressInputs == {"", "Calle 1"}
ZoneInputs == {"", " San Isidro", "Marte"}

\* Which sheets answer in a call of create_order (shipping, customers, orders,
\* events): all of them, or all but the shipping or the orders sheet.
SheetFaults ==
    {f \in [{"ship", "cust", "save", "log"} -> BOOLEAN] :
        /\ f.cust /\ f.log
        /\ f.ship \/ f.save}

\* The id uuid4 gives: one that no order has.
FreshOrderIds(os) ==
    IF OrderIds \subseteq DOMAIN os THEN {}
    ELSE {CHOOSE o \in OrderIds : o \notin DOMAIN os}

\* A shop with no order yet: V1 has connected its processor account.
InitCheckout ==
    /\ InitCommon
    /\ orders = <<>>
    /\ payStatus = "pending"
    /\ payRef = MakeRef("V1", "O1")
    /\ vault = [v \in {"V1"} |-> StoredToken(1, 1, 4 * Margin, "U1")]
    /\ otherKeys = 0

\* Customers of V1 fill the cart and check out; any of the sheets may fail.
NextCheckout ==
    \/ \E session_id \in {"S1"}, product_sku \in DOMAIN Catalog \cup {"Q"},
          quantity \in 0..2, readOk \in BOOLEAN :
          AddToCart(session_id, product_sku, quantity, readOk)
    \/ \E session_id \in {"S1"}, customer \in CustomerInputs,
          delivery_mode \in ModeInputs, delivery_address \in AddressInputs,
          delivery_zone \in ZoneInputs, order_id \in FreshOrderIds(orders),
          f \in SheetFaults :
          CreateOrder(session_id, "V1", customer, delivery_mode, delivery_address,
                      delivery_zone, order_id, f.ship, f.cust, f.save, f.log)

SpecCheckout == InitCheckout /\ [][NextCheckout]_vars

\* Two sessions fill their carts and check out for V1, for pickup or for
\* delivery; the orders sheet may fail.
NextSessions ==
    \/ \E session_id \in Sessions, product_sku \in {"A", "Z"} :
          AddToCart(session_id, product_sku, 1, TRUE)
    \/ \E session_id \in Sessions, customer \in CustomerInputs,
          delivery_mode \in {"PICKUP", "delivery", "DRONE"},
          order_id \in FreshOrderIds(orders), f \in SheetFaults :
          CreateOrder(session_id, "V1", customer, delivery_mode, "Calle 1",
                      " San Isidro", order_id, f.ship, f.cust, f.save, f.log)

SpecSessions == InitCheckout /\ [][NextSessions]_vars

\* ------------------------------------------------------------------ the engine
\* The customer opens the checkout of an order's payment link and pays: the
\* processor's payment carries the external_reference of the preference.
CustomerPays(order_id) ==
    /\ order_id \in DOMAIN orders
    /\ orders[order_id].external_reference # <<>>
    /\ payRef = <<>>
    /\ payRef' = orders[order_id].external_reference
    /\ payStatus' = "pending"
    /\ UNCHANGED <<orders, events, notifs, seen, otherKeys, inflight, vault, now,
                   mpIssued, last, nCalls, everKeys, freshApplied, carts, customers,
                   refreshing, exchanges,
                   oauthStates>>

\* A shop with no order and no payment yet: V1 has connected its processor
\* account.
InitEngine ==
    /\ InitCommon
    /\ orders = <<>>
    /\ payStatus = "pending"
    /\ payRef = <<>>
    /\ vault = [v \in {"V1"} |-> StoredToken(1, 1, 4 * Margin, "U1")]
    /\ otherKeys = 0

\* Every operation of the engine on the first order of V1, the sheets answering,
\* with the distributor, the customer and the processor.
NextEngine ==
    \/ \E session_id \in {"S1"} : AddToCart(session_id, "B", 1, TRUE)
    \/ \E session_id \in {"S1"}, customer \in {c \in CustomerInputs : c.valid},
          order_id \in FreshOrderIds(orders) :
          /\ orders = <<>>
          /\ CreateOrder(session_id, "V1", customer, "PICKUP", "", "", order_id,
                         TRUE, TRUE, TRUE, TRUE)
    \/ \E order_id \in OrderIds, payment_method \in {"MERCADOPAGO", "AT_VET"} :
          SetPaymentMethod(order_id, payment_method, TRUE, 3, TRUE)
    \/ \E order_id \in OrderIds,
          resp \in {r \in RefreshResponses(mpIssued + 1) : r.kind = "fail"} :
          CreatePaymentLink("V1", order_id, resp, TRUE, TRUE, "PREF1", 5)
    \/ \E order_id \in OrderIds : CancelOrder(order_id, TRUE, TRUE, 2, TRUE)
    \/ \E order_id \in OrderIds, new_status \in StatusInputs :
          UpdateOrderStatus(order_id, new_status, TRUE, TRUE, 2, TRUE)
    \/ \E order_id \in OrderIds : CustomerPays(order_id)
    \/ \E resp \in {r \in RefreshResponses(mpIssued + 1) : r.kind = "fail"} :
          WebhookV2Receive("V1", Body(TRUE, TRUE, "payment", "payment.updated", "P1"),
                           resp, TRUE)
    \/ \E hd \in BagToSet(inflight) : WebhookV2Resume(hd, "ok", 4, TRUE, TRUE, TRUE)
    \/ \E s \in {"approved", "rejected"} : MpPaymentChanges(s)
    \/ \E order_id \in OrderIds, st \in OrderStatus :
          DistributorSetsStatus(order_id, st)

SpecEngine == InitEngine /\ [][NextEngine]_vars

\* ------------------------------------------------- properties of the webhook
\* C1: the mapping from processor status to order status is approved ->
\* PAYMENT_APPROVED, pending and in_process -> PAYMENT_PENDING_MP, rejected ->
\* PAYMENT_REJECTED, cancelled and refunded -> CANCELLED, anything else ->
\* PAYMENT_PENDING_MP; and when webhook/v2 has processed a payment of status s for
\* an existing order (its update returned True), the stored status is map(s).
C1_StatusMapping ==
    LET map(s) == IF s = "approved" THEN "PAYMENT_APPROVED"
                  ELSE IF s \in {"pending", "in_process"} THEN "PAYMENT_PENDING_MP"
                  ELSE IF s = "rejected" THEN "PAYMENT_REJECTED"
                  ELSE IF s \in {"cancelled", "refunded"} THEN "CANCELLED"
                  ELSE "PAYMENT_PENDING_MP"
    IN /\ \A s \in MPPaymentStatus \cup {"unknown"} :
             MapMpStatusToOrderStatus(s) = map(s)
       /\ (last.op = "webhook_v2" /\ last.result = "processed" /\ last.written)
             => /\ last.after.status = map(last.mp)
                /\ orders[last.order].status = map(last.mp)

\* A chargeback processed for an order that was PAYMENT_APPROVED.
C1_Witness ==
    /\ last.op = "webhook_v2" /\ last.result = "processed" /\ last.written
    /\ last.mp = "charged_back"
    /\ last.before.status = "PAYMENT_APPROVED"
    /\ last.after.status = "PAYMENT_PENDING_MP"

\* C2: applying the same processor status to the same order twice leaves status,
\* mp_status and mp_payment_id as applying it once does, for every order state
\* reached and every processor status; and a webhook/v2 call that applies a
\* status the order already holds leaves the row as it was.
C2_ApplyTwice ==
    /\ \A o \in DOMAIN orders, s \in MPPaymentStatus, pid \in PaymentIds :
          LET once == UpdateOrderPaymentStatus(orders, o, pid, MapMpStatus(s),
                                               MapMpStatusToOrderStatus(s), 4)
              twice == UpdateOrderPaymentStatus(once, o, pid, MapMpStatus(s),
                                                MapMpStatusToOrderStatus(s), 4)
          IN /\ twice[o].status = once[o].status
             /\ twice[o].mp_status = once[o].mp_status
             /\ twice[o].mp_payment_id = once[o].mp_payment_id
    /\ (/\ last.op = "webhook_v2" /\ last.result = "processed" /\ last.written
        /\ last.before.mp_payment_id = "P1"
        /\ last.before.mp_status = MapMpStatus(last.mp)
        /\ last.before.status = MapMpStatusToOrderStatus(last.mp))
          => last.after = last.before

\* Approved was applied to an order that already held it.
C2_Witness ==
    /\ last.op = "webhook_v2" /\ last.result = "processed" /\ last.written
    /\ last.mp = "approved"
    /\ last.before.mp_payment_id = "P1"
    /\ last.before.mp_status = "approved"
    /\ last.before.status = "PAYMENT_APPROVED"
    /\ last.after = last.before

\* C3: whenever a delivery for the approved payment has been processed with no
\* storage or lookup failure, the order is PAYMENT_APPROVED and each of the three
\* notifications of the fan-out has been sent exactly once so far.
C3_FanoutExactlyOnce ==
    (/\ last.op = "webhook_v2" /\ last.result = "processed"
     /\ last.mp = "approved" /\ ~last.fault)
       => /\ orders[last.order].status = "PAYMENT_APPROVED"
          /\ \A n \in BagToSet(ApprovedFanout(last.order)) : CopiesIn(n, notifs) = 1

\* C4: a webhook/v2 call whose (vet_id, action, payment id) an earlier webhook/v2
\* call carried returns "duplicate", writes no order, records no audit event and
\* sends no notification, whatever webhook calls came in between.
C4_ReplayIsDuplicate ==
    (last.op = "webhook_v2" /\ last.replay)
       => /\ last.result = "duplicate"
          /\ ~last.changed
          /\ last.audits = 0
          /\ last.sends = 0

\* C5: when the fetched payment's external_reference is empty, is not made of the
\* three parts DTV|vet_id|order_id, or names another vet_id than the request's,
\* webhook/v2 returns "ignored" or "error", changes no order, records no audit
\* event and sends no notification.
C5_BadReference ==
    LET ref == last.ref
        bars == Cardinality({i \in 1..Len(ref) : ref[i] = "|"})
        wellFormed == /\ Len(ref) >= 4 /\ bars = 2
                      /\ ref[1] = "DTV" /\ ref[2] = "|" /\ ref[4] = "|"
        bad == ref = <<>> \/ ~wellFormed \/ ref[3] # last.vet
    IN (last.op = "webhook_v2" /\ last.mp # "" /\ bad)
          => /\ last.result \in {"ignored", "error"}
             /\ ~last.changed
             /\ last.audits = 0
             /\ last.sends = 0

\* A payment of another merchant's order arrived under this merchant's URL.
C5_Witness ==
    /\ last.op = "webhook_v2" /\ last.mp # ""
    /\ last.ref = MakeRef("V2", "O2") /\ last.vet = "V1"
    /\ last.result = "error" /\ last.reason = "vet_mismatch"
    /\ ~last.changed /\ last.audits = 0 /\ last.sends = 0

\* C6: every webhook/v2 call returns an acknowledgment ("ignored", "duplicate",
\* "processed" or "error"): no exception leaves the handler, whatever the body
\* and whatever fails inside.
C6_AlwaysAcknowledges ==
    last.op = "webhook_v2"
       => last.result \in {"ignored", "duplicate", "processed", "error"}

\* The payment fetch raised and the call returned "error".
C6_Witness ==
    last.op = "webhook_v2" /\ last.reason = "exception" /\ last.result = "error"

\* C7: once no notification is being handled and the payment's current status
\* has been fetched and written, the order's status and mp_status are the
\* mapping of the status the processor reports.
C7_Converges ==
    (inflight = EmptyBag /\ freshApplied)
       => /\ orders["O1"].status = MapMpStatusToOrderStatus(payStatus)
          /\ orders["O1"].mp_status = MapMpStatus(payStatus)

\* --------------------------------------------- properties of the order tools
\* C8: cancel_order on an existing order. On a CANCELLED order it changes
\* nothing, records no audit event, sends no notification and returns
\* "already_cancelled"; on a DELIVERED or COMPLETED order likewise, returning
\* "cannot_cancel"; from every other status it sets the status to CANCELLED and
\* returns "cancelled" (the returned statuses being those of a call in which the
\* sheets answered); and "cancelled" is returned from no other status.
C8_CancelOrder ==
    LET refused == {"CANCELLED", "DELIVERED", "COMPLETED"}
        quiet == ~last.changed /\ last.audits = 0 /\ last.sends = 0
                 /\ last.after.status = last.before.status
    IN (last.op = "cancel_order" /\ last.before # NoRow)
          => /\ last.before.status = "CANCELLED"
                  => /\ quiet
                     /\ last.result \in {"already_cancelled", "not_found"}
                     /\ ~last.fault => last.result = "already_cancelled"
             /\ last.before.status \in {"DELIVERED", "COMPLETED"}
                  => /\ quiet
                     /\ last.result \in {"cannot_cancel", "not_found"}
                     /\ ~last.fault => last.result = "cannot_cancel"
             /\ (last.before.status \notin refused /\ ~last.fault)
                  => /\ last.result = "cancelled"
                     /\ last.after.status = "CANCELLED"
             /\ last.result = "cancelled"
                  => /\ last.before.status \notin refused
                     /\ last.after.status = "CANCELLED"

\* cancel_order refused to cancel a COMPLETED order.
C8_Witness ==
    /\ last.op = "cancel_order" /\ last.before.status = "COMPLETED"
    /\ last.result = "cannot_cancel"
    /\ last.after.status = "COMPLETED" /\ ~last.changed
    /\ last.audits = 0 /\ last.sends = 0

\* C9: update_order_status with a logistics status or a payment status returns
\* "not_allowed" and changes no order; a call of it changes an order only when
\* the status asked for is CANCELLED.
C9_NotAllowed ==
    LET logistics == {"PREPARING", "READY_FOR_PICKUP", "OUT_FOR_DELIVERY",
                      "DELIVERED", "COMPLETED"}
        payment == {"CREATED", "PAYMENT_PENDING_MP", "PAYMENT_AT_VET",
                    "PAYMENT_APPROVED", "PAYMENT_REJECTED", "PAYMENT_PENDING"}
    IN last.op = "update_order_status"
          => /\ last.arg \in logistics \cup payment
                  => last.result = "not_allowed" /\ ~last.changed
             /\ last.changed => last.arg \in {"CANCELLED", "cancelled"}

\* C10: an operation of the engine (set_payment_method, create_payment_link,
\* cancel_order, update_order_status, webhook payment notification) on an order
\* that is CANCELLED or COMPLETED, the sheets answering, leaves its status as it
\* was.
C10_Terminal ==
    (/\ last.op \in {"set_payment_method", "create_payment_link", "cancel_order",
                     "update_order_status", "webhook_v2"}
     /\ ~last.fault
     /\ last.before.status \in {"CANCELLED", "COMPLETED"})
       => last.after.status = last.before.status

C12_PaymentGraph ==
    [][\A o \in DOMAIN orders :
          orders[o].status = "CREATED"
             => orders'[o].status \notin {"PAYMENT_APPROVED", "PAYMENT_REJECTED"}]_vars

\* C13: set_payment_method with AT_VET on an existing order, the sheets
\* answering, sets payment_method to AT_VET and status to PAYMENT_AT_VET; with an
\* unknown order id it returns "not_found" and with a method other than
\* MERCADOPAGO and AT_VET "invalid_method", changing no order and recording no
\* event in both cases; and no call of it reaches the token vault or the
\* processor.
C13_AtVet ==
    last.op = "set_payment_method"
       => /\ last.calls = 0
          /\ (Upper(last.arg) = "AT_VET" /\ last.before # NoRow /\ ~last.fault)
                => /\ last.result = "updated"
                   /\ last.after.payment_method = "AT_VET"
                   /\ last.after.status = "PAYMENT_AT_VET"
          /\ (Upper(last.arg) \in {"MERCADOPAGO", "AT_VET"} /\ last.before = NoRow)
                => /\ last.result = "not_found"
                   /\ ~last.changed /\ last.audits = 0
          /\ Upper(last.arg) \notin {"MERCADOPAGO", "AT_VET"}
                => /\ last.result = "invalid_method"
                   /\ ~last.changed /\ last.audits = 0

\* An order that was PAYMENT_PENDING_MP under MERCADOPAGO was set to pay at the
\* counter.
C13_Witness ==
    /\ last.op = "set_payment_method" /\ last.arg = "at_vet"
    /\ last.before.status = "PAYMENT_PENDING_MP"
    /\ last.before.payment_method = "MERCADOPAGO"
    /\ last.result = "updated"
    /\ last.after.payment_method = "AT_VET"
    /\ last.after.status = "PAYMENT_AT_VET"

\* C14: set_payment_method with MERCADOPAGO on an existing order, the sheets
\* answering, records payment_method MERCADOPAGO and leaves the status at
\* CREATED (for an order that was CREATED, the status it had): the order is not
\* moved to PAYMENT_PENDING_MP, its mp_preference_id and external_reference are
\* as before, and neither the token vault nor the processor is called.
C14_MercadopagoFrame ==
    (/\ last.op = "set_payment_method" /\ Upper(last.arg) = "MERCADOPAGO"
     /\ last.before # NoRow /\ ~last.fault)
       => /\ last.result = "updated"
          /\ last.after.payment_method = "MERCADOPAGO"
          /\ last.after.status = "CREATED"
          /\ last.before.status = "CREATED" => last.after.status = last.before.status
          /\ last.after.mp_preference_id = last.before.mp_preference_id
          /\ last.after.external_reference = last.before.external_reference
          /\ last.calls = 0

\* A new order was set to pay with MERCADOPAGO.
C14_Witness ==
    /\ last.op = "set_payment_method" /\ last.arg = "MERCADOPAGO"
    /\ last.before.status = "CREATED" /\ last.before.payment_method = ""
    /\ last.result = "updated"
    /\ last.after.status = "CREATED"
    /\ last.after.payment_method = "MERCADOPAGO"
    /\ last.after.mp_preference_id = "" /\ last.after.external_reference = <<>>

\* C15: whenever create_payment_link(vet_id, order_id) returns "success", the
\* stored order has status PAYMENT_PENDING_MP, payment_method MERCADOPAGO, the
\* mp_preference_id the processor returned and the external_reference
\* DTV|vet_id|order_id.
C15_LinkStored ==
    (last.op = "create_payment_link" /\ last.result = "success")
       => /\ last.order \in DOMAIN orders
          /\ orders[last.order].status = "PAYMENT_PENDING_MP"
          /\ orders[last.order].payment_method = "MERCADOPAGO"
          /\ orders[last.order].mp_preference_id = last.mp
          /\ orders[last.order].external_reference
                = <<"DTV", "|", last.vet, "|", last.order>>

\* C16: when create_payment_link fails because the merchant has no usable token
\* (none stored, or the refresh failed) or because the processor gives no
\* preference, it returns a result other than "success" and the stored order is
\* exactly as before the call.
C16_FailedLink ==
    (/\ last.op = "create_payment_link"
     /\ last.reason # "success" \/ last.mp = "")
       => /\ last.result \in {"mp_not_connected", "error", "order_not_found"}
          /\ ~last.changed
          /\ last.after = last.before
          /\ last.reason = "not_connected" => last.result = "mp_not_connected"

\* V2's refresh failed when it asked for the link of its order O2.
C16_Witness ==
    /\ last.op = "create_payment_link" /\ last.vet = "V2" /\ last.order = "O2"
    /\ last.reason = "refresh_failed"
    /\ last.result = "error"
    /\ last.before.status = "CREATED" /\ last.after = last.before

\* C17: in every reachable state, every order whose external_reference is set
\* has one that splits on "|" into exactly three parts: the tag DTV, the order's
\* own vet_id and the order's own order_id.
C17_ReferenceShape ==
    \A o \in DOMAIN orders :
        orders[o].external_reference # <<>>
           => LET parts == Split(orders[o].external_reference)
              IN /\ Len(parts) = 3
                 /\ parts[1] = <<"DTV">>
                 /\ parts[2] = <<orders[o].vet_id>>
                 /\ parts[3] = <<o>>

\* The link of O1 was created and its reference stored, although the write of
\* the status after it failed.
C17_Witness ==
    /\ last.op = "create_payment_link" /\ last.order = "O1" /\ last.vet = "V1"
    /\ orders["O1"].external_reference # <<>>
    /\ orders["O1"].status = "CREATED"
    /\ Split(orders["O1"].external_reference) = <<<<"DTV">>, <<"V1">>, <<"O1">>>>

\* ------------------------------------------------- properties of the checkout
\* C18: every stored order has total_amount = subtotal + shipping_cost, with
\* subtotal the sum of quantity * unit_price over its items and shipping_cost 0
\* when the delivery mode is PICKUP; and the same holds of the order as
\* get_order_by_id returns it.
C18_Totals ==
    LET RECURSIVE Sum(_)
        Sum(items) == IF items = <<>> THEN 0
                      ELSE Head(items).quantity * Head(items).unit_price
                           + Sum(Tail(items))
        Sound(row, items) ==
            /\ row.total_amount = row.subtotal + row.shipping_cost
            /\ row.subtotal = Sum(items)
            /\ row.delivery_mode = "PICKUP" => row.shipping_cost = 0
    IN \A o \in DOMAIN orders :
          /\ Sound(orders[o], ParseItems(orders[o].items))
          /\ Sound(GetOrderById(orders, o), GetOrderById(orders, o).items)

\* An order of two units of A and one of B is stored.
C18_Witness ==
    \E o \in DOMAIN orders :
        /\ Len(orders[o].items) = 2
        /\ orders[o].subtotal = 200
        /\ orders[o].total_amount = 200
        /\ last.op = "create_order" /\ last.order = o /\ last.result = "created"

\* C19: create_order with a non-empty cart, valid customer data, DELIVERY, an
\* address and a zone of the shipping table, the sheets answering, returns
\* "created" and stores the order as CREATED with the table's cost as
\* shipping_cost and subtotal + that cost as total_amount.
C19_DeliveryCreated ==
    (/\ last.op = "create_order" /\ ~last.fault
     /\ last.cart_before # <<>> /\ last.valid
     /\ Upper(last.arg) = "DELIVERY" /\ last.address # ""
     /\ NormalizeZone(last.zone) \in DOMAIN ShippingTable)
       => /\ last.result = "created"
          /\ last.after.status = "CREATED"
          /\ last.after.shipping_cost = ShippingTable[NormalizeZone(last.zone)]
          /\ last.after.total_amount
                = last.after.subtotal + ShippingTable[NormalizeZone(last.zone)]

\* C20: create_order with DELIVERY, an address and a zone that is not in the
\* shipping table returns "validation_error" and persists nothing: no order, no
\* customer row, no audit event, and the cart is as it was.
C20_UnknownZone ==
    (/\ last.op = "create_order" /\ ~last.fault
     /\ last.cart_before # <<>> /\ last.valid
     /\ Upper(last.arg) = "DELIVERY" /\ last.address # "" /\ last.zone # ""
     /\ NormalizeZone(last.zone) \notin DOMAIN ShippingTable)
       => /\ last.result = "validation_error"
          /\ ~last.changed
          /\ ~last.registered
          /\ last.audits = 0
          /\ last.cart_after = last.cart_before

\* C21: create_order for a session whose cart has no item returns "empty_cart"
\* and persists nothing (no order, no customer row, no audit event, no
\* notification), whatever the other arguments are.
C21_EmptyCart ==
    (last.op = "create_order" /\ last.cart_before = <<>>)
       => /\ last.result = "empty_cart"
          /\ ~last.changed
          /\ ~last.registered
          /\ last.audits = 0
          /\ last.sends = 0
          /\ last.cart_after = <<>>

\* A pickup order was asked for a valid customer with nothing in the cart.
C21_Witness ==
    /\ last.op = "create_order" /\ last.cart_before = <<>>
    /\ last.valid /\ last.arg = "PICKUP"
    /\ last.result = "empty_cart"
    /\ orders = <<>> /\ customers = {}

C23_CartCleared ==
    last.op = "create_order"
       => /\ last.result = "created" => last.cart_after = <<>>
          /\ last.result # "created" => last.cart_after = last.cart_before
          /\ last.result \in {"created", "empty_cart", "validation_error", "error"}
          /\ ~last.others

\* S1 checked out its cart while S2 kept two units of A in its own; then the
\* orders sheet failed under S2's order.
C23_Witness ==
    /\ last.op = "create_order" /\ last.session = "S2"
    /\ last.result = "error" /\ last.fault
    /\ last.cart_before # <<>> /\ last.cart_after = last.cart_before
    /\ carts["S1"] = <<>> /\ carts["S2"] # <<>>
    /\ orders # <<>>

\* --------------------------------------------------- properties of the storage
\* C24: no partial order state is visible: when a storage call fails part-way
\* through an order mutation, the stored order is as before the operation.
\* set_payment_method and cancel_order that return "error" leave the row as it
\* was, and create_payment_link leaves it either as it was or with
\* mp_preference_id, external_reference, payment_method and status all written.
C24_NoPartialWrite ==
    /\ (last.op \in {"set_payment_method", "cancel_order"} /\ last.result = "error")
          => last.after = last.before
    /\ last.op = "create_payment_link"
          => \/ last.after = last.before
             \/ /\ last.after.mp_preference_id = last.mp
                /\ last.after.external_reference = MakeRef(last.vet, last.order)
                /\ last.after.payment_method = "MERCADOPAGO"
                /\ last.after.status = "PAYMENT_PENDING_MP"

\* ------------------------------------------------ properties of the token vault
\* C25: ensure_valid_mp_token does not call the refresh endpoint and does not
\* write the vault for a merchant whose stored token has expires_at more than 5
\* minutes in the future, and returns the stored access token; for a token at or
\* within 5 minutes of expiry, expired ones included, it sends a refresh.
C25_RefreshMargin ==
    (last.op = "ensure_valid_mp_token" /\ last.stored # <<>>)
       => /\ last.stored.expires_at - last.at > 5
                => /\ last.calls = 0
                   /\ last.kept = last.stored
                   /\ last.result = "success"
                   /\ last.access = last.stored.access_token
          /\ last.stored.expires_at - last.at <= 5 => last.calls = 1

\* A token that expires in exactly 5 minutes was refreshed.
C25_Witness ==
    /\ last.op = "ensure_valid_mp_token" /\ last.stored # <<>>
    /\ last.stored.expires_at - last.at = 5
    /\ last.calls = 1 /\ last.result = "success"

\* C26: when ensure_valid_mp_token refreshes a token and returns "success", the
\* vault afterwards holds for that merchant the access_token returned to the
\* caller, the refresh_token of the response or, when the response has none, the
\* one stored before, and the mp_user_id stored before.
C26_RefreshPersisted ==
    (last.op = "ensure_valid_mp_token" /\ last.calls = 1 /\ last.result = "success")
       => /\ last.kept # <<>>
          /\ last.kept.access_token = last.access
          /\ last.kept.refresh_token = IF last.resp.has_refresh
                                       THEN last.resp.refresh_token
                                       ELSE last.stored.refresh_token
          /\ last.kept.mp_user_id = last.stored.mp_user_id

\* C27: ensure_valid_mp_token returns "not_connected" for a merchant with no
\* stored token and "refresh_failed" when the refresh exchange it needs fails;
\* in both cases it returns no access token and leaves the vault as it was, and
\* create_payment_link and the webhook that meet either result call no payment
\* API of the processor and change no order.
C27_NoToken ==
    /\ last.op = "ensure_valid_mp_token"
          => /\ last.stored = <<>> => last.result = "not_connected"
             /\ (last.calls = 1 /\ last.resp.kind = "fail")
                   => last.result = "refresh_failed"
             /\ last.result \in {"not_connected", "refresh_failed"}
                   => last.access = 0 /\ last.kept = last.stored
    /\ (/\ last.op \in {"create_payment_link", "webhook_v2"}
        /\ last.tok \in {"not_connected", "refresh_failed"})
          => /\ last.calls = IF last.tok = "not_connected" THEN 1 ELSE 2
             /\ ~last.changed
             /\ last.after = last.before
             /\ last.result \in {"mp_not_connected", "error"}

\* The webhook for V2 met a failed refresh of V2's token.
C27_Witness ==
    /\ last.op = "webhook_v2" /\ last.vet = "V2"
    /\ last.tok = "refresh_failed"
    /\ last.result = "error" /\ last.reason = "no_token"
    /\ last.calls = 2 /\ inflight = EmptyBag

\* C28: two calls of ensure_valid_mp_token for one merchant whose token is
\* within 5 minutes of expiry are serialized: once the processor has answered a
\* refresh exchange for the merchant with new tokens, no other exchange is sent
\* for that merchant (so none presents a refresh token already used), and when
\* no call is under way the vault holds the token of the latest exchange that
\* succeeded.
C28_Serialized ==
    \A v \in VetIds :
       LET Sent == {i \in 1..Len(exchanges) : exchanges[i].vet_id = v}
           Done == {i \in Sent : exchanges[i].kind = "ok"}
       IN /\ \A i \in Done, j \in Sent : j <= i
          /\ (Done # {} /\ \A c \in Callers : refreshing[c].pc \in {"idle", "returned"})
                => \E i \in Done :
                      /\ \A j \in Done : j <= i
                      /\ vault[v].access_token = exchanges[i].access_token

\* C29: delete_token is idempotent in both backends: for a merchant with no
\* stored token it reports success and changes nothing; applied again it leaves
\* the same vault and gives the same result; after it get_token finds nothing
\* for the merchant, and the tokens of the other merchants are unchanged.
C29_DeleteIdempotent ==
    (last.op = "delete_token" /\ last.saved)
       => LET again == DeleteToken(last.arg, vault, last.vet, TRUE)
          IN /\ last.stored = <<>> => last.result = "True" /\ last.kept = <<>>
             /\ again.vault = vault
             /\ again.ok = (last.result = "True")
             /\ last.kept = <<>>
             /\ ~last.others

UnderWay(vet_id, action, pid) ==
    {hd \in BagToSet(inflight) : hd.vet = vet_id /\ hd.action = action /\ hd.pid = pid}

\* C31: the check-and-insert of webhook/v2 is atomic: of two deliveries with the
\* same (vet_id, action, payment id) handled at the same time exactly one goes
\* on to processing, so no two requests with one key are under way together,
\* and the delivery that arrives while the other is under way is answered
\* "duplicate".
C31_AtomicDedup ==
    /\ \A vet_id \in VetIds, action \in Actions, pid \in PaymentIds :
          LET hs == UnderWay(vet_id, action, pid)
          IN /\ Cardinality(hs) <= 1
             /\ \A hd \in hs : CopiesIn(hd, inflight) = 1
    /\ (/\ last.op = "webhook_v2" /\ last.replay /\ last.order = ""
        /\ last.reason = ""
        /\ \E pid \in PaymentIds : UnderWay(last.vet, last.arg, pid) # {})
          => last.result = "duplicate"

\* C32: the seen set is capped: after any sequence of webhook calls on either
\* route _processed_notifications holds at most 10000 keys plus the one being
\* inserted.
C32_SeenCapped == Cardinality(seen) + otherKeys <= SeenCap + 1

\* ------------------------------------------------ properties of the lifecycle
\* C33: payment progress is not undone: a webhook/v2 notification, a
\* set_payment_method call or a create_payment_link call on an order whose
\* status is PAYMENT_APPROVED does not leave it in CREATED, PAYMENT_PENDING_MP
\* or PAYMENT_AT_VET.
C33_NoRegress ==
    (/\ last.op \in {"webhook_v2", "set_payment_method", "create_payment_link"}
     /\ last.before.status = "PAYMENT_APPROVED")
       => last.after.status \notin {"CREATED", "PAYMENT_PENDING_MP", "PAYMENT_AT_VET"}

\* ------------------------------------------------- properties of redelivery
\* The first handling of the notification has returned without updating the
\* order: no usable token, payment fetch failed, or the sheet refused the write.
FirstHandlingFailed ==
    /\ last.op = "webhook_v2" /\ ~last.replay
    /\ inflight = EmptyBag
    /\ \/ last.result = "error"
       \/ last.result = "processed" /\ ~last.written

\* C34: when the first handling of a payment notification fails before the
\* order is updated and the processor delivers the same notification again with
\* the cause of the failure gone, the redelivery is processed: the order's
\* status eventually is the mapping of the payment's status.
C34_RedeliveryReconciles ==
    FirstHandlingFailed
       ~> (orders["O1"].status = MapMpStatusToOrderStatus(payStatus))

\* C35: webhook/v2 returns "processed" and records a PAYMENT_RECEIVED event
\* only if the order named in the payment's external_reference exists and the
\* update of its payment status was written.
C35_ProcessedMeansWritten ==
    (last.op = "webhook_v2" /\ (last.result = "processed" \/ last.audits > 0))
       => /\ last.before # NoRow
          /\ last.written

\* ----------------------------------------- properties of merchant isolation
\* C36: a webhook/v2 request arriving under merchant V and a create_payment_link
\* call with vet_id V modify no order whose stored vet_id is not V, whatever
\* external_reference the payment carries.
C36_PaymentPathIsolation ==
    (last.op \in {"webhook_v2", "create_payment_link"} /\ last.changed)
       => last.before.vet_id = last.vet

\* C37: cancel_order and set_payment_method called from the conversation of
\* merchant V change only orders whose vet_id is V; given the id of an order of
\* another merchant they change nothing.
C37_ToolPathIsolation ==
    (last.op \in {"cancel_order", "set_payment_method"} /\ last.vet # "")
       => /\ last.changed => last.before.vet_id = last.vet
          /\ (last.before # NoRow /\ last.before.vet_id # last.vet)
                => /\ ~last.changed
                   /\ last.audits = 0 /\ last.sends = 0

\* ------------------------------------------------------- properties of OAuth
\* C38: a token is stored in the vault under a merchant only by a callback whose
\* state was handed out by start_mp_oauth for that merchant: a callback with a
\* state that was never handed out stores no token and does not replace the
\* merchant's token.
C38_StateIssued ==
    (last.op = "mp_oauth_callback" /\ last.kept # last.stored)
       => /\ last.ref \in oauthStates
          /\ \E t \in 0..MaxNow : last.ref = MakeState(last.vet, t)

====
